---------------------------- MODULE Spec2Model ----------------------------
(***************************************************************************)
(* Model of python/_brotli.c: the BlocksOutputBuffer, the three driver     *)
(* loops (compress_stream, decompress_stream, brotli_decompress) and the   *)
(* Compressor / Decompressor wrapper objects built on them.                *)
(*                                                                         *)
(* Byte strings are kept run-length encoded: a sequence of <<byte, n>>     *)
(* runs, n > 0, adjacent runs of different bytes.  This is a               *)
(* representation of uint8_t arrays only; it lets the model use the block  *)
(* sizes of the source (32 KB, 64 KB, ...) unchanged.                      *)
(***************************************************************************)
EXTENDS Integers, Sequences, FiniteSets, TLC

\* ------------------------------------------------------------------------
\* Bounds of the model
\* ------------------------------------------------------------------------

\* Calls made on one Compressor or Decompressor object before it is released.
MaxOps == 3

\* The largest number of grows made on one buffer when the buffer is
\* exercised on its own (BufferSpec).
MaxGrows == 18

\* The largest number of method calls the two threads make between them on
\* the object they share (ThreadSpec).
MaxThreadCalls == 2

\* ------------------------------------------------------------------------
\* Byte strings (run-length representation)
\* ------------------------------------------------------------------------

\* A pointer is NULL or refers to one object.
NULL == <<>>
Ref(x) == <<x>>
Deref(p) == p[1]

Min(a, b) == IF a < b THEN a ELSE b

RECURSIVE BLen(_)
BLen(s) == IF s = <<>> THEN 0 ELSE s[1][2] + BLen(Tail(s))

BRun(sym, n) == IF n = 0 THEN <<>> ELSE << <<sym, n>> >>

BCat(s, t) ==
    IF s = <<>> THEN t
    ELSE IF t = <<>> THEN s
    ELSE IF s[Len(s)][1] = t[1][1]
         THEN SubSeq(s, 1, Len(s) - 1) \o << <<t[1][1], s[Len(s)][2] + t[1][2]>> >> \o Tail(t)
         ELSE s \o t

RECURSIVE BTake(_, _)
BTake(s, n) ==
    IF n = 0 \/ s = <<>> THEN <<>>
    ELSE IF s[1][2] <= n THEN <<s[1]>> \o BTake(Tail(s), n - s[1][2])
    ELSE << <<s[1][1], n>> >>

RECURSIVE BDrop(_, _)
BDrop(s, n) ==
    IF n = 0 \/ s = <<>> THEN s
    ELSE IF s[1][2] <= n THEN BDrop(Tail(s), n - s[1][2])
    ELSE << <<s[1][1], s[1][2] - n>> >> \o Tail(s)

\* Content of freshly allocated, not yet written memory.
Junk == "?"

\* memcpy(dst + off, data, BLen(data)) on the memory image mem.
MemWrite(mem, off, data) ==
    BCat(BCat(BTake(mem, off), data), BDrop(mem, off + BLen(data)))

\* ------------------------------------------------------------------------
\* BlocksOutputBuffer
\* ------------------------------------------------------------------------

KB == 1024
MB == 1024 * 1024

BUFFER_BLOCK_SIZE ==
    << 32*KB, 64*KB, 256*KB, 1*MB, 4*MB, 8*MB, 16*MB, 16*MB,
       32*MB, 32*MB, 32*MB, 32*MB, 64*MB, 64*MB, 128*MB, 128*MB,
       256*MB >>

\* PyBytes_FromStringAndSize(NULL, n): a bytes object of n uninitialised bytes.
PyBytes_New(n) == BRun(Junk, n)

\* Py_CLEAR(buffer->list): the reference to the list is dropped, which
\* releases the list and its blocks, and the pointer is set to NULL; nothing
\* happens for a NULL pointer.  released counts the releases of the list.
Py_CLEAR(buffer) ==
    [buffer EXCEPT !.list = NULL,
                   !.released = IF buffer.list = NULL THEN @ ELSE @ + 1]

\* Py_XDECREF(buffer->list): as Py_CLEAR, but the pointer is left as it is.
Py_XDECREF(buffer) ==
    [buffer EXCEPT !.released = IF buffer.list = NULL THEN @ ELSE @ + 1]

\* BlocksOutputBuffer_InitAndGrow.  b_ok and list_ok say whether the two
\* allocations (the first block, the list) succeed.  The result holds the
\* return value rc and the out-parameters.
BlocksOutputBuffer_InitAndGrow(buffer, avail_out, next_out, b_ok, list_ok) ==
    LET block_size == BUFFER_BLOCK_SIZE[1] IN
    IF ~b_ok
    THEN [rc |-> -1, buffer |-> [buffer EXCEPT !.list = NULL],
          avail_out |-> avail_out, next_out |-> next_out]
    ELSE IF ~list_ok
    THEN [rc |-> -1, buffer |-> [buffer EXCEPT !.list = NULL],
          avail_out |-> avail_out, next_out |-> next_out]
    ELSE [rc |-> 0,
          buffer |-> [buffer EXCEPT !.list = Ref(<< PyBytes_New(block_size) >>),
                                    !.allocated = block_size],
          avail_out |-> block_size,
          next_out |-> [blk |-> 1, off |-> 0]]

\* A Grow that takes the size of the block before from the table.
GrowBlockSize_Previous(list_len) ==
    IF list_len < Len(BUFFER_BLOCK_SIZE)
    THEN BUFFER_BLOCK_SIZE[list_len]
    ELSE BUFFER_BLOCK_SIZE[Len(BUFFER_BLOCK_SIZE)]

\* The block size BlocksOutputBuffer_Grow picks for a list of list_len blocks
\* (the source's array is 0-based, sequences here are 1-based).
GrowBlockSize(list_len) ==
    IF list_len < Len(BUFFER_BLOCK_SIZE)
    THEN BUFFER_BLOCK_SIZE[list_len + 1]
    ELSE BUFFER_BLOCK_SIZE[Len(BUFFER_BLOCK_SIZE)]

\* A Grow that puts the new block in front of the others.
BlocksOutputBuffer_Grow_InFront(buffer, avail_out, next_out, b_ok, append_ok) ==
    LET list_len   == Len(Deref(buffer.list))
        block_size == GrowBlockSize(list_len)
    IN
    IF ~b_ok \/ ~append_ok
    THEN [rc |-> -1, buffer |-> Py_CLEAR(buffer),
          avail_out |-> avail_out, next_out |-> next_out]
    ELSE [rc |-> 0,
          buffer |-> [buffer EXCEPT
                        !.list = Ref(<<PyBytes_New(block_size)>> \o Deref(buffer.list)),
                        !.allocated = buffer.allocated + block_size],
          avail_out |-> block_size,
          next_out |-> [blk |-> 1, off |-> 0]]

\* A Grow that does not add the new block's size to allocated.
BlocksOutputBuffer_Grow_SameAllocated(buffer, avail_out, next_out, b_ok, append_ok) ==
    LET list_len   == Len(Deref(buffer.list))
        block_size == GrowBlockSize(list_len)
    IN
    IF ~b_ok \/ ~append_ok
    THEN [rc |-> -1, buffer |-> Py_CLEAR(buffer),
          avail_out |-> avail_out, next_out |-> next_out]
    ELSE [rc |-> 0,
          buffer |-> [buffer EXCEPT
                        !.list = Ref(Append(Deref(buffer.list), PyBytes_New(block_size)))],
          avail_out |-> block_size,
          next_out |-> [blk |-> list_len + 1, off |-> 0]]

\* BlocksOutputBuffer_Grow.  b_ok and append_ok say whether the allocation of
\* the block and PyList_Append succeed.  On failure the list is cleared
\* (Py_CLEAR sets buffer->list to NULL) and the window is left as it was.
BlocksOutputBuffer_Grow(buffer, avail_out, next_out, b_ok, append_ok) ==
    LET list_len   == Len(Deref(buffer.list))
        block_size == GrowBlockSize(list_len)
    IN
    IF ~b_ok
    THEN [rc |-> -1, buffer |-> Py_CLEAR(buffer),
          avail_out |-> avail_out, next_out |-> next_out]
    ELSE IF ~append_ok
    THEN [rc |-> -1, buffer |-> Py_CLEAR(buffer),
          avail_out |-> avail_out, next_out |-> next_out]
    ELSE [rc |-> 0,
          buffer |-> [buffer EXCEPT
                        !.list = Ref(Append(Deref(buffer.list), PyBytes_New(block_size))),
                        !.allocated = buffer.allocated + block_size],
          avail_out |-> block_size,
          next_out |-> [blk |-> list_len + 1, off |-> 0]]

\* The engine's write of the bytes wr at next_out, which points into block
\* next_out.blk of the list at offset next_out.off.
WriteWindow(buffer, next_out, wr) ==
    IF wr = <<>> THEN buffer
    ELSE [buffer EXCEPT !.list =
            Ref([Deref(buffer.list) EXCEPT ![next_out.blk] =
                    MemWrite(@, next_out.off, wr)])]

\* A Finish whose loop over the whole blocks starts at the second block.
RECURSIVE CopyWholeBlocks_SkipFirst(_, _)
CopyWholeBlocks_SkipFirst(list, n) ==
    IF n <= 1 THEN <<>>
    ELSE BCat(CopyWholeBlocks_SkipFirst(list, n - 1), BTake(list[n], BLen(list[n])))

\* The memory copy of BlocksOutputBuffer_Finish: the first n blocks in full
\* (Py_SIZE(block) bytes each), in list order.
RECURSIVE CopyWholeBlocks(_, _)
CopyWholeBlocks(list, n) ==
    IF n = 0 THEN <<>>
    ELSE BCat(CopyWholeBlocks(list, n - 1), BTake(list[n], BLen(list[n])))

\* A Finish that copies the last block whole, unused tail included.
CopyLastBlock_Whole(list, avail_out) ==
    BTake(list[Len(list)], BLen(list[Len(list)]))

\* The last block, cut to Py_SIZE(block) - avail_out bytes.
CopyLastBlock(list, avail_out) ==
    BTake(list[Len(list)], BLen(list[Len(list)]) - avail_out)

\* The bytes object of the given size after copied has been written from its
\* start; what is not written stays uninitialised.
Filled(size, copied) ==
    IF BLen(copied) <= size THEN MemWrite(PyBytes_New(size), 0, copied) ELSE copied

\* BlocksOutputBuffer_Finish on a buffer whose list is not NULL.  result_ok
\* says whether the allocation of the final bytes object succeeds.  copied
\* counts the bytes the memcpy calls have copied out of the blocks.
BlocksOutputBuffer_Finish(buffer, avail_out, result_ok) ==
    LET list == Deref(buffer.list) IN
    IF ~result_ok
    THEN [result |-> NULL, buffer |-> Py_CLEAR(buffer)]
    ELSE LET copy == IF Len(list) > 0
                     THEN BCat(CopyWholeBlocks(list, Len(list) - 1),
                               CopyLastBlock(list, avail_out))
                     ELSE <<>>
         IN [result |-> Ref(Filled(buffer.allocated - avail_out, copy)),
             buffer |-> [Py_CLEAR(buffer) EXCEPT !.copied = @ + BLen(copy)]]

\* BlocksOutputBuffer_CleanUp: Py_XDECREF(buffer->list) releases the list
\* when the pointer is not NULL and leaves the pointer as it is.
BlocksOutputBuffer_CleanUp(buffer) == Py_XDECREF(buffer)

\* ------------------------------------------------------------------------
\* The codec engine (brotli/encode.h, brotli/decode.h).  Its code is not part
\* of python/_brotli.c; it is modelled here by the step contract: a stateful
\* object that consumes what it can of the input window and writes what it
\* can into the output window.  The stand-in codec passes data bytes through
\* and closes the stream with one end-of-stream byte.
\* ------------------------------------------------------------------------

DataBytes == {"a", "b"}
EndByte == "Z"
Terminator == BRun(EndByte, 1)

BROTLI_OPERATION_PROCESS == "PROCESS"
BROTLI_OPERATION_FLUSH == "FLUSH"
BROTLI_OPERATION_FINISH == "FINISH"

\* Input block of the encoder: it holds input back until a block is full or
\* a flush or finish is asked for.
EncBlock == 65536

\* BrotliEncoderCreateInstance: nothing held, nothing pending, stream open,
\* no parameter set.  The parameters are read when the stream starts; the
\* stand-in codec does not depend on them and drops them then.
NewEncoder == [held |-> <<>>, out |-> <<>>, fin |-> FALSE, params |-> <<>>]

\* BrotliEncoderSetParameter.
BrotliEncoderSetParameter(e, p, v) == [e EXCEPT !.params = Append(@, <<p, v>>)]

\* The body of one BrotliEncoderCompressStream call: take input into the
\* block, push pending output into the window, encode a block when it is
\* full or the operation asks for it, until nothing more can be done.
RECURSIVE EncLoop(_)
EncLoop(s) ==
    IF BLen(s.held) < EncBlock /\ s.in # <<>>
    THEN LET c == Min(EncBlock - BLen(s.held), BLen(s.in)) IN
         EncLoop([s EXCEPT !.held = BCat(@, BTake(s.in, c)), !.in = BDrop(@, c)])
    ELSE IF s.out # <<>> /\ s.avail > 0
    THEN LET n == Min(BLen(s.out), s.avail) IN
         EncLoop([s EXCEPT !.wr = BCat(@, BTake(s.out, n)),
                           !.out = BDrop(@, n), !.avail = @ - n])
    ELSE IF /\ s.out = <<>>
            /\ ~s.fin
            /\ (BLen(s.held) = EncBlock \/ s.op # BROTLI_OPERATION_PROCESS)
            /\ (s.held # <<>> \/ (s.in = <<>> /\ s.op = BROTLI_OPERATION_FINISH))
    THEN LET last == s.in = <<>> /\ s.op = BROTLI_OPERATION_FINISH IN
         EncLoop([s EXCEPT !.out = BCat(s.held, IF last THEN Terminator ELSE <<>>),
                           !.held = <<>>, !.fin = last])
    ELSE s

\* BrotliEncoderCompressStream(enc, op, &available_in, &next_in,
\* &available_out, &next_out).  wr is what the call wrote at next_out.
\* A closed stream takes no more input; reject says whether the engine
\* refuses a step on a closed and drained stream with no input, and stall
\* whether a FINISH step emits what is held and leaves the stream open (the
\* step contract leaves both open: is_finished is asked for separately).
BrotliEncoderCompressStream(e, op, next_in, available_out, reject, stall) ==
    IF e.fin /\ (next_in # <<>> \/ (reject /\ e.out = <<>>))
    THEN [ok |-> FALSE, enc |-> e, next_in |-> next_in, wr |-> <<>>,
          available_out |-> available_out]
    ELSE LET s == EncLoop([held |-> e.held, out |-> e.out, fin |-> e.fin,
                           op |-> IF stall /\ op = BROTLI_OPERATION_FINISH
                                  THEN BROTLI_OPERATION_FLUSH ELSE op,
                           in |-> next_in, avail |-> available_out, wr |-> <<>>])
         IN [ok |-> TRUE,
             enc |-> [e EXCEPT !.held = s.held, !.out = s.out, !.fin = s.fin,
                               !.params = <<>>],
             next_in |-> s.in, wr |-> s.wr, available_out |-> s.avail]

BrotliEncoderHasMoreOutput(e) == e.out # <<>>

BrotliEncoderIsFinished(e) == e.fin /\ ~BrotliEncoderHasMoreOutput(e)

BROTLI_DECODER_RESULT_ERROR == "ERROR"
BROTLI_DECODER_RESULT_SUCCESS == "SUCCESS"
BROTLI_DECODER_RESULT_NEEDS_MORE_INPUT == "NEEDS_MORE_INPUT"
BROTLI_DECODER_RESULT_NEEDS_MORE_OUTPUT == "NEEDS_MORE_OUTPUT"

\* BrotliDecoderCreateInstance.
NewDecoder == [done |-> FALSE, failed |-> FALSE]

\* Number of leading data bytes of an input.
RECURSIVE DataPrefixLen(_)
DataPrefixLen(in) ==
    IF in = <<>> \/ in[1][1] \notin DataBytes THEN 0
    ELSE in[1][2] + DataPrefixLen(Tail(in))

\* BrotliDecoderDecompressStream(dec, &available_in, &next_in,
\* &available_out, &next_out).  A failed decoder stays failed, a finished one
\* consumes nothing more.  Otherwise the data bytes at the head of the input
\* go to the window as far as it has room; NEEDS_MORE_OUTPUT is reported when
\* the window is full and data is left, and then the byte after the data
\* decides: none, the end byte, or an invalid byte.
BrotliDecoderDecompressStream(d, next_in, available_out) ==
    IF d.failed
    THEN [result |-> BROTLI_DECODER_RESULT_ERROR, dec |-> d, next_in |-> next_in,
          wr |-> <<>>, available_out |-> available_out]
    ELSE IF d.done
    THEN [result |-> BROTLI_DECODER_RESULT_SUCCESS, dec |-> d, next_in |-> next_in,
          wr |-> <<>>, available_out |-> available_out]
    ELSE LET p    == DataPrefixLen(next_in)
             n    == Min(p, available_out)
             rest == BDrop(next_in, n)
             base == [dec |-> d, next_in |-> rest, wr |-> BTake(next_in, n),
                      available_out |-> available_out - n]
         IN IF n < p
            THEN base @@ [result |-> BROTLI_DECODER_RESULT_NEEDS_MORE_OUTPUT]
            ELSE IF rest = <<>>
            THEN base @@ [result |-> BROTLI_DECODER_RESULT_NEEDS_MORE_INPUT]
            ELSE IF rest[1][1] = EndByte
            THEN [base EXCEPT !.next_in = BDrop(rest, 1), !.dec = [d EXCEPT !.done = TRUE]]
                 @@ [result |-> BROTLI_DECODER_RESULT_SUCCESS]
            ELSE [base EXCEPT !.dec = [d EXCEPT !.failed = TRUE]]
                 @@ [result |-> BROTLI_DECODER_RESULT_ERROR]

BrotliDecoderIsFinished(d) == d.done


\* ------------------------------------------------------------------------
\* Argument conversion of the Compressor constructor
\* ------------------------------------------------------------------------

BROTLI_MODE_GENERIC == 0
BROTLI_MODE_TEXT == 1
BROTLI_MODE_FONT == 2

\* Host values: an int (big: outside the range of a C long) or something
\* else.
PyInt(v) == [t |-> "int", v |-> v, big |-> FALSE]
PyBigInt == [t |-> "int", v |-> 0, big |-> TRUE]
PyStr == [t |-> "str", v |-> 0, big |-> FALSE]

PyInt_Check(o) == o.t = "int"

\* PyLong_AsLong: -1 (and an OverflowError) for a value that does not fit.
PyInt_AsLong(o) == IF o.big THEN -1 ELSE o.v

as_bounded_int(o, result, lower_bound, upper_bound) ==
    LET value == PyInt_AsLong(o) IN
    IF value < lower_bound \/ value > upper_bound
    THEN [rc |-> 0, result |-> result]
    ELSE [rc |-> 1, result |-> value]

mode_convertor(o, mode) ==
    IF ~PyInt_Check(o) THEN [rc |-> 0, val |-> mode, msg |-> "Invalid mode"]
    ELSE LET r == as_bounded_int(o, -1, 0, 255) IN
         IF r.rc = 0 THEN [rc |-> 0, val |-> mode, msg |-> "Invalid mode"]
         ELSE IF /\ r.result # BROTLI_MODE_GENERIC
                 /\ r.result # BROTLI_MODE_TEXT
                 /\ r.result # BROTLI_MODE_FONT
         THEN [rc |-> 0, val |-> r.result, msg |-> "Invalid mode"]
         ELSE [rc |-> 1, val |-> r.result, msg |-> ""]

quality_convertor(o, quality) ==
    IF ~PyInt_Check(o) THEN [rc |-> 0, val |-> quality, msg |-> "Invalid quality"]
    ELSE LET r == as_bounded_int(o, quality, 0, 11) IN
         IF r.rc = 0
         THEN [rc |-> 0, val |-> r.result, msg |-> "Invalid quality. Range is 0 to 11."]
         ELSE [rc |-> 1, val |-> r.result, msg |-> ""]

lgwin_convertor(o, lgwin) ==
    IF ~PyInt_Check(o) THEN [rc |-> 0, val |-> lgwin, msg |-> "Invalid lgwin"]
    ELSE LET r == as_bounded_int(o, lgwin, 10, 24) IN
         IF r.rc = 0
         THEN [rc |-> 0, val |-> r.result, msg |-> "Invalid lgwin. Range is 10 to 24."]
         ELSE [rc |-> 1, val |-> r.result, msg |-> ""]

\* An lgblock_convertor without the test that excludes 1 to 15.
lgblock_convertor_NoGap(o, lgblock) ==
    IF ~PyInt_Check(o) THEN [rc |-> 0, val |-> lgblock, msg |-> "Invalid lgblock"]
    ELSE LET r == as_bounded_int(o, lgblock, 0, 24) IN
         IF r.rc = 0
         THEN [rc |-> 0, val |-> r.result,
               msg |-> "Invalid lgblock. Can be 0 or in range 16 to 24."]
         ELSE [rc |-> 1, val |-> r.result, msg |-> ""]

lgblock_convertor(o, lgblock) ==
    IF ~PyInt_Check(o) THEN [rc |-> 0, val |-> lgblock, msg |-> "Invalid lgblock"]
    ELSE LET r == as_bounded_int(o, lgblock, 0, 24) IN
         IF r.rc = 0 \/ (r.result # 0 /\ r.result < 16)
         THEN [rc |-> 0, val |-> r.result,
               msg |-> "Invalid lgblock. Can be 0 or in range 16 to 24."]
         ELSE [rc |-> 1, val |-> r.result, msg |-> ""]

\* One "O&" unit of PyArg_ParseTupleAndKeywords: an argument that is not
\* supplied leaves the variable alone, a supplied one goes through its
\* convertor, and nothing more is converted after the first failure.
ConvertArg(st, name, r) ==
    IF st.ok = 0 THEN st
    ELSE [st EXCEPT !.ok = r.rc, ![name] = r.val, !.msg = r.msg]

\* PyArg_ParseTupleAndKeywords(args, keywds, "|O&O&O&O&:Compressor", ...) of
\* brotli_Compressor_init; an argument is NULL when it is not supplied.
ParseCompressorArgs(args) ==
    LET s0 == [ok |-> 1, mode |-> -1, quality |-> -1, lgwin |-> -1, lgblock |-> -1,
               msg |-> ""]
        s1 == IF args.mode = NULL THEN s0
              ELSE ConvertArg(s0, "mode", mode_convertor(Deref(args.mode), s0.mode))
        s2 == IF args.quality = NULL THEN s1
              ELSE ConvertArg(s1, "quality",
                              quality_convertor(Deref(args.quality), s1.quality))
        s3 == IF args.lgwin = NULL THEN s2
              ELSE ConvertArg(s2, "lgwin", lgwin_convertor(Deref(args.lgwin), s2.lgwin))
        s4 == IF args.lgblock = NULL THEN s3
              ELSE ConvertArg(s3, "lgblock",
                              lgblock_convertor(Deref(args.lgblock), s3.lgblock))
    IN s4

\* The BrotliEncoderSetParameter calls of brotli_Compressor_init.
SetParameters(enc, p) ==
    LET e1 == IF p.mode # -1 THEN BrotliEncoderSetParameter(enc, "MODE", p.mode) ELSE enc
        e2 == IF p.quality # -1 THEN BrotliEncoderSetParameter(e1, "QUALITY", p.quality)
              ELSE e1
        e3 == IF p.lgwin # -1 THEN BrotliEncoderSetParameter(e2, "LGWIN", p.lgwin) ELSE e2
        e4 == IF p.lgblock # -1 THEN BrotliEncoderSetParameter(e3, "LGBLOCK", p.lgblock)
              ELSE e3
    IN e4

\* ------------------------------------------------------------------------
\* Inputs
\* ------------------------------------------------------------------------

ModeArgs ==
    {NULL, Ref(PyInt(0)), Ref(PyInt(1)), Ref(PyInt(2)), Ref(PyInt(3)), Ref(PyStr)}
QualityArgs ==
    {NULL, Ref(PyInt(0)), Ref(PyInt(11)), Ref(PyInt(12)), Ref(PyInt(-1)), Ref(PyBigInt)}
LgwinArgs == {NULL, Ref(PyInt(10)), Ref(PyInt(24)), Ref(PyInt(9)), Ref(PyInt(25))}
LgblockArgs == {NULL, Ref(PyInt(0)), Ref(PyInt(16)), Ref(PyInt(24)), Ref(PyInt(5)),
                Ref(PyInt(15)), Ref(PyInt(25))}
CompressorArgs ==
    [mode : ModeArgs, quality : QualityArgs, lgwin : LgwinArgs, lgblock : LgblockArgs]

\* Inputs of Compressor.process: empty, one byte, one byte short of the
\* first block, and more than two encoder blocks.
CompressInputs ==
    { <<>>, BRun("b", 1), BRun("a", 32767), BRun("a", 200000) }

\* Inputs of Decompressor.process: pieces of streams, with and without the
\* end byte, with a byte after the end, and an invalid byte.
StreamInputs ==
    { <<>>, BRun("a", 5), BRun("b", 40000), Terminator,
      BCat(BRun("a", 32768), Terminator),
      BCat(BCat(BRun("a", 2), Terminator), BRun("b", 1)),
      BRun("!", 1),
      BCat(BRun("b", 32768), BRun("!", 1)) }

\* Inputs of the one-shot decompress besides the output of the Compressor.
OneShotInputs ==
    { <<>>, Terminator,
      BCat(BRun("a", 32768), Terminator),
      BRun("a", 32768),
      BCat(BCat(BRun("a", 1), Terminator), BRun("b", 1)),
      BCat(BRun("a", 1), BRun("!", 1)) }

\* The outcomes of two allocations in a row: both succeed, the first fails,
\* or the second fails.
AllocOutcomes == { <<TRUE, TRUE>>, <<FALSE, TRUE>>, <<TRUE, FALSE>> }

\* ------------------------------------------------------------------------
\* State
\* ------------------------------------------------------------------------

VARIABLES
    obj,    \* the Compressor or Decompressor object: its type, its engine
            \* pointer (enc / dec) and the number of calls made on it
    pc,     \* where the calling thread is
    call,   \* the function being executed (or the last one) and its arguments
    loc,    \* the locals of the driver function being executed
    ret,    \* what the last call returned (NULL: it failed)
    err,    \* the exception set by the last call
    hist,   \* history: what the engine wrote in this call, what went through
            \* the Compressor so far, which buffer functions were called
    thr     \* the threads: which of the two is running (the variables above
            \* are its own), which are inside a call of the engine, and the
            \* suspended thread's position, call, locals and per-call history

vars == <<obj, pc, call, loc, ret, err, hist, thr>>

NoObject == [type |-> "none", eng |-> NULL, nops |-> 0]

NoCall == [fn |-> "none", input |-> <<>>, args |-> <<>>]

\* Locals of a driver before its first statement; those the source leaves
\* unassigned are not read before they are assigned.
NoLocals ==
    [op |-> "none", available_in |-> 0, next_in |-> <<>>,
     available_out |-> 0, next_out |-> [blk |-> 0, off |-> 0],
     buffer |-> [list |-> NULL, allocated |-> 0, released |-> 0, copied |-> 0],
     ok |-> TRUE, result |-> "none", state |-> NULL, output |-> NULL]

\* The per-call part of the history: what the engine wrote into the windows
\* in write order, the engine steps and successful grows made, whether an
\* allocation failed, whether Grow failed, whether Finish and CleanUp were
\* called, whether the decoder was finished when the call began, and the
\* number of the engine step that reported an error (0: none did), whether
\* the calling thread holds the host's lock, whether it has used the
\* host's objects without holding it, and the number of calls of Finish and
\* CleanUp made.
NoCallHist ==
    [written |-> <<>>, steps |-> 0, grows |-> 0, allocFailed |-> FALSE,
     growFailed |-> FALSE, finishCalled |-> FALSE, cleanupCalled |-> FALSE,
     finishedAtEntry |-> FALSE, errorAt |-> 0,
     gil |-> TRUE, hostUnlocked |-> FALSE, teardowns |-> 0]

\* A Py_BEGIN_ALLOW_THREADS that keeps the host's lock.
Py_BEGIN_ALLOW_THREADS_KeepLock(h) == h

\* Py_BEGIN_ALLOW_THREADS: the calling thread releases the host's lock.
Py_BEGIN_ALLOW_THREADS(h) == [h EXCEPT !.c.gil = FALSE]

\* Py_END_ALLOW_THREADS: the calling thread takes the host's lock again.
Py_END_ALLOW_THREADS(h) == [h EXCEPT !.c.gil = TRUE]

\* The calling thread uses the host's objects (allocates one, appends to a
\* list, drops a reference, sets the error): noted when it does so without
\* holding the lock.
HostCall(h) == [h EXCEPT !.c.hostUnlocked = @ \/ ~h.c.gil]

\* The per-object part of the history: cin is the input of the successful
\* process calls, cout the output of the successful calls, ops the calls that
\* returned (<<name, succeeded, input not empty>>), cok whether all of
\* them succeeded,
\* sawSuccess whether the decoder has reported SUCCESS, engines the number of
\* engine instances created for the object and not destroyed.
NoObjHist ==
    [cin |-> <<>>, cout |-> <<>>, ops |-> <<>>, cok |-> TRUE,
     sawSuccess |-> FALSE, engines |-> 0]

\* A thread that is in no call.
NoThread ==
    [pc |-> "idle", call |-> NoCall, loc |-> NoLocals, ret |-> NULL,
     err |-> "none", hc |-> NoCallHist]

\* Thread 1 running, thread 2 in no call, neither inside the engine.
NoThreads == [cur |-> 1, inEngine |-> <<FALSE, FALSE>>, other |-> NoThread]

Init ==
    /\ thr = NoThreads
    /\ obj = NoObject
    /\ pc = "idle"
    /\ call = NoCall
    /\ loc = NoLocals
    /\ ret = NULL
    /\ err = "none"
    /\ hist = [c |-> NoCallHist, o |-> NoObjHist]

\* ------------------------------------------------------------------------
\* Construction and release of the objects
\* ------------------------------------------------------------------------

\* brotli_Compressor_new: tp_alloc, then BrotliEncoderCreateInstance; either
\* may fail.  It does not look at the arguments of the constructor call; the
\* host hands them to brotli_Compressor_init next.
Compressor_new ==
    /\ pc = "idle"
    /\ obj.type = "none"
    /\ \E a \in AllocOutcomes :
        /\ call' = [fn |-> "Compressor", input |-> <<>>, args |-> <<>>]
        /\ loc' = NoLocals
        /\ IF ~a[1]
           THEN /\ obj' = obj
                /\ pc' = "idle"
                /\ ret' = NULL
                /\ err' = "MemoryError"
                /\ hist' = [c |-> NoCallHist, o |-> NoObjHist]
           ELSE /\ obj' = [type |-> "Compressor",
                           eng |-> IF a[2] THEN Ref(NewEncoder) ELSE NULL,
                           nops |-> 0]
                /\ pc' = "Compressor_init"
                /\ ret' = NULL
                /\ err' = "none"
                /\ hist' = [c |-> NoCallHist,
                            o |-> [NoObjHist EXCEPT !.engines = IF a[2] THEN 1 ELSE 0]]
    /\ UNCHANGED thr

\* brotli_Compressor_init with the arguments of the constructor call.  When
\* it returns -1 the host drops the object it got from
\* brotli_Compressor_new, which runs brotli_Compressor_dealloc.
Compressor_init ==
    /\ pc = "Compressor_init"
    /\ \E args \in CompressorArgs :
        LET p == ParseCompressorArgs(args) IN
        /\ call' = [call EXCEPT !.args = args]
        /\ IF p.ok = 0
           THEN /\ pc' = "Compressor_dealloc"
                /\ ret' = NULL
                /\ err' = "BrotliError"
                /\ obj' = obj
           ELSE IF obj.eng = NULL
           THEN /\ pc' = "Compressor_dealloc"
                /\ ret' = NULL
                /\ err' = "none"
                /\ obj' = obj
           ELSE /\ pc' = "idle"
                /\ ret' = Ref("Compressor")
                /\ err' = "none"
                /\ obj' = [obj EXCEPT !.eng = Ref(SetParameters(Deref(obj.eng), p))]
    /\ UNCHANGED <<loc, hist>>
    /\ UNCHANGED thr

\* A brotli_Compressor_dealloc that frees the object and not the encoder.
Compressor_dealloc_NoDestroy ==
    /\ \/ pc = "Compressor_dealloc"
       \/ pc = "idle" /\ obj.type = "Compressor"
    /\ obj' = NoObject
    /\ pc' = "idle"
    /\ call' = [fn |-> "Compressor.dealloc", input |-> <<>>, args |-> <<>>]
    /\ loc' = NoLocals
    /\ ret' = NULL
    /\ err' = IF pc = "idle" THEN "none" ELSE err
    /\ hist' = [c |-> NoCallHist,
                o |-> [NoObjHist EXCEPT !.engines = hist.o.engines]]
    /\ UNCHANGED thr

\* brotli_Compressor_dealloc: BrotliEncoderDestroyInstance(self->enc), which
\* accepts NULL, then tp_free.  It runs when construction failed and when
\* the caller drops the object.
Compressor_dealloc ==
    /\ \/ pc = "Compressor_dealloc"
       \/ pc = "idle" /\ obj.type = "Compressor"
    /\ obj' = NoObject
    /\ pc' = "idle"
    /\ call' = [fn |-> "Compressor.dealloc", input |-> <<>>, args |-> <<>>]
    /\ loc' = NoLocals
    /\ ret' = NULL
    /\ err' = IF pc = "idle" THEN "none" ELSE err
    /\ hist' = [c |-> NoCallHist,
                o |-> [NoObjHist EXCEPT
                         !.engines = hist.o.engines - IF obj.eng = NULL THEN 0 ELSE 1]]
    /\ UNCHANGED thr

\* brotli_Decompressor_new.
Decompressor_new ==
    /\ pc = "idle"
    /\ obj.type = "none"
    /\ \E a \in AllocOutcomes :
        /\ call' = [fn |-> "Decompressor", input |-> <<>>, args |-> <<>>]
        /\ loc' = NoLocals
        /\ IF ~a[1]
           THEN /\ obj' = obj
                /\ pc' = "idle"
                /\ ret' = NULL
                /\ err' = "MemoryError"
                /\ hist' = [c |-> NoCallHist, o |-> NoObjHist]
           ELSE /\ obj' = [type |-> "Decompressor",
                           eng |-> IF a[2] THEN Ref(NewDecoder) ELSE NULL,
                           nops |-> 0]
                /\ pc' = "Decompressor_init"
                /\ ret' = NULL
                /\ err' = "none"
                /\ hist' = [c |-> NoCallHist,
                            o |-> [NoObjHist EXCEPT !.engines = IF a[2] THEN 1 ELSE 0]]
    /\ UNCHANGED thr

\* brotli_Decompressor_init: no argument to convert; fails on a NULL decoder.
Decompressor_init ==
    /\ pc = "Decompressor_init"
    /\ IF obj.eng = NULL
       THEN /\ pc' = "Decompressor_dealloc"
            /\ ret' = NULL
       ELSE /\ pc' = "idle"
            /\ ret' = Ref("Decompressor")
    /\ err' = "none"
    /\ UNCHANGED <<obj, call, loc, hist>>
    /\ UNCHANGED thr

\* brotli_Decompressor_dealloc.
Decompressor_dealloc ==
    /\ \/ pc = "Decompressor_dealloc"
       \/ pc = "idle" /\ obj.type = "Decompressor"
    /\ obj' = NoObject
    /\ pc' = "idle"
    /\ call' = [fn |-> "Decompressor.dealloc", input |-> <<>>, args |-> <<>>]
    /\ loc' = NoLocals
    /\ ret' = NULL
    /\ err' = IF pc = "idle" THEN "none" ELSE err
    /\ hist' = [c |-> NoCallHist,
                o |-> [NoObjHist EXCEPT
                         !.engines = hist.o.engines - IF obj.eng = NULL THEN 0 ELSE 1]]
    /\ UNCHANGED thr


\* ------------------------------------------------------------------------
\* compress_stream and the Compressor methods
\* ------------------------------------------------------------------------

\* The first statements of a driver: available_in = input_length,
\* next_in = input, ok = BROTLI_TRUE.
DriverLocals(op, input) ==
    [NoLocals EXCEPT !.op = op, !.available_in = BLen(input), !.next_in = input]

\* brotli_Compressor_process up to the call of compress_stream: a NULL
\* encoder goes to the end label with ok = BROTLI_FALSE.
Compressor_process ==
    /\ pc = "idle"
    /\ obj.type = "Compressor"
    /\ obj.nops < MaxOps
    /\ \E input \in CompressInputs :
        /\ call' = [fn |-> "Compressor.process", input |-> input, args |-> <<>>]
        /\ loc' = IF obj.eng = NULL
                  THEN [NoLocals EXCEPT !.ok = FALSE]
                  ELSE DriverLocals(BROTLI_OPERATION_PROCESS, input)
    /\ pc' = IF obj.eng = NULL THEN "Compressor_process_end" ELSE "compress_stream_init"
    /\ ret' = NULL
    /\ err' = "none"
    /\ hist' = [hist EXCEPT !.c = NoCallHist]
    /\ obj' = obj
    /\ UNCHANGED thr

\* brotli_Compressor_flush up to the call of compress_stream.
Compressor_flush ==
    /\ pc = "idle"
    /\ obj.type = "Compressor"
    /\ obj.nops < MaxOps
    /\ call' = [fn |-> "Compressor.flush", input |-> <<>>, args |-> <<>>]
    /\ loc' = IF obj.eng = NULL
              THEN [NoLocals EXCEPT !.ok = FALSE]
              ELSE DriverLocals(BROTLI_OPERATION_FLUSH, <<>>)
    /\ pc' = IF obj.eng = NULL THEN "Compressor_flush_end" ELSE "compress_stream_init"
    /\ ret' = NULL
    /\ err' = "none"
    /\ hist' = [hist EXCEPT !.c = NoCallHist]
    /\ obj' = obj
    /\ UNCHANGED thr

\* brotli_Compressor_finish up to the call of compress_stream.
Compressor_finish ==
    /\ pc = "idle"
    /\ obj.type = "Compressor"
    /\ obj.nops < MaxOps
    /\ call' = [fn |-> "Compressor.finish", input |-> <<>>, args |-> <<>>]
    /\ loc' = IF obj.eng = NULL
              THEN [NoLocals EXCEPT !.ok = FALSE]
              ELSE DriverLocals(BROTLI_OPERATION_FINISH, <<>>)
    /\ pc' = IF obj.eng = NULL THEN "Compressor_finish_end" ELSE "compress_stream_init"
    /\ ret' = NULL
    /\ err' = "none"
    /\ hist' = [hist EXCEPT !.c = NoCallHist]
    /\ obj' = obj
    /\ UNCHANGED thr

\* Where the method that called compress_stream / decompress_stream goes on.
CallerEnd(fn) ==
    CASE fn = "Compressor.process" -> "Compressor_process_end"
      [] fn = "Compressor.flush" -> "Compressor_flush_end"
      [] fn = "Compressor.finish" -> "Compressor_finish_end"
      [] fn = "Decompressor.process" -> "Decompressor_process_end"

\* A driver that never finds the window full and never grows the buffer.
WindowFull_Never(available_out) == FALSE

\* A driver that grows the buffer when less than 1 KB of the window is left.
WindowFull_NearlyFull(available_out) == available_out < KB

\* The test the three drivers make after a step and before
\* BlocksOutputBuffer_Grow: if (available_out == 0).
WindowFull(available_out) == available_out = 0

\* compress_stream: BlocksOutputBuffer_InitAndGrow; on failure it returns
\* BROTLI_FALSE at once.
compress_stream_init ==
    /\ pc = "compress_stream_init"
    /\ \E a \in AllocOutcomes :
        LET r == BlocksOutputBuffer_InitAndGrow(loc.buffer, loc.available_out,
                                                loc.next_out, a[1], a[2])
        IN IF r.rc < 0
           THEN /\ loc' = [loc EXCEPT !.buffer = r.buffer, !.ok = FALSE]
                /\ pc' = CallerEnd(call.fn)
                /\ err' = "MemoryError"
                /\ hist' = HostCall([hist EXCEPT !.c.allocFailed = TRUE])
           ELSE /\ loc' = [loc EXCEPT !.buffer = r.buffer,
                                      !.available_out = r.avail_out,
                                      !.next_out = r.next_out]
                /\ pc' = "compress_stream_step"
                /\ err' = err
                /\ hist' = Py_BEGIN_ALLOW_THREADS(HostCall(hist))
    /\ UNCHANGED <<obj, call, ret>>
    /\ UNCHANGED thr

\* A compress_stream that loops only while input is left.
CompressLoopNext_InputOnly(available_in, enc) ==
    IF available_in # 0
    THEN "compress_stream_step"
    ELSE "compress_stream_end"

\* The end of the loop body of compress_stream: another round when input is
\* left or the encoder has more output, else out of the loop.
CompressLoopNext(available_in, enc) ==
    IF available_in # 0 \/ BrotliEncoderHasMoreOutput(enc)
    THEN "compress_stream_step"
    ELSE "compress_stream_end"

\* compress_stream: one BrotliEncoderCompressStream call and the tests that
\* follow it (ok, available_out == 0).
CompressStep ==
    /\ pc = "compress_stream_step"
    /\ LET e == Deref(obj.eng) IN
       \E reject \in (IF e.fin /\ e.out = <<>> /\ loc.next_in = <<>>
                      THEN BOOLEAN ELSE {FALSE}),
          stall \in (IF loc.op = BROTLI_OPERATION_FINISH /\ ~e.fin
                     THEN BOOLEAN ELSE {FALSE}) :
        LET r == BrotliEncoderCompressStream(e, loc.op, loc.next_in,
                                             loc.available_out, reject, stall)
        IN /\ obj' = [obj EXCEPT !.eng = Ref(r.enc)]
           /\ loc' = [loc EXCEPT !.ok = r.ok,
                                 !.next_in = r.next_in,
                                 !.available_in = BLen(r.next_in),
                                 !.available_out = r.available_out,
                                 !.next_out.off = @ + BLen(r.wr),
                                 !.buffer = WriteWindow(@, loc.next_out, r.wr)]
           /\ hist' = [hist EXCEPT !.c.written = BCat(@, r.wr), !.c.steps = @ + 1,
                                   !.c.errorAt = IF ~r.ok /\ @ = 0
                                                 THEN hist.c.steps + 1 ELSE @]
           /\ pc' = IF ~r.ok THEN "compress_stream_end"
                    ELSE IF WindowFull(r.available_out) THEN "compress_stream_grow"
                    ELSE CompressLoopNext(BLen(r.next_in), r.enc)
    /\ UNCHANGED <<call, ret, err>>

\* The step of compress_stream made by the only thread there is: the call of
\* the encoder and its return are one step.
compress_stream_step == CompressStep /\ UNCHANGED thr

\* compress_stream: BlocksOutputBuffer_Grow after a step that left
\* available_out == 0; on failure ok = BROTLI_FALSE and break.
compress_stream_grow ==
    /\ pc = "compress_stream_grow"
    /\ \E a \in AllocOutcomes :
        LET r == BlocksOutputBuffer_Grow(loc.buffer, loc.available_out,
                                         loc.next_out, a[1], a[2])
        IN IF r.rc < 0
           THEN /\ loc' = [loc EXCEPT !.buffer = r.buffer, !.ok = FALSE]
                /\ pc' = "compress_stream_end"
                /\ err' = "MemoryError"
                /\ hist' = HostCall([hist EXCEPT !.c.allocFailed = TRUE, !.c.growFailed = TRUE])
           ELSE /\ loc' = [loc EXCEPT !.buffer = r.buffer,
                                      !.available_out = r.avail_out,
                                      !.next_out = r.next_out]
                /\ pc' = CompressLoopNext(loc.available_in, Deref(obj.eng))
                /\ err' = err
                /\ hist' = HostCall([hist EXCEPT !.c.grows = @ + 1])
    /\ UNCHANGED <<obj, call, ret>>
    /\ UNCHANGED thr

\* compress_stream after the loop: BlocksOutputBuffer_Finish when ok, else
\* BlocksOutputBuffer_CleanUp; a NULL from Finish makes ok BROTLI_FALSE.
compress_stream_end ==
    /\ pc = "compress_stream_end"
    /\ IF loc.ok
       THEN \E result_ok \in BOOLEAN :
              LET f == BlocksOutputBuffer_Finish(loc.buffer, loc.available_out, result_ok)
              IN /\ loc' = [loc EXCEPT !.buffer = f.buffer, !.output = f.result,
                                       !.ok = (f.result # NULL)]
                 /\ err' = IF f.result = NULL THEN "MemoryError" ELSE err
                 /\ hist' = HostCall(Py_END_ALLOW_THREADS([hist EXCEPT !.c.finishCalled = TRUE, !.c.teardowns = @ + 1,
                                         !.c.allocFailed = @ \/ ~result_ok]))
       ELSE /\ loc' = [loc EXCEPT !.buffer = BlocksOutputBuffer_CleanUp(@)]
            /\ err' = err
            /\ hist' = HostCall(Py_END_ALLOW_THREADS([hist EXCEPT !.c.cleanupCalled = TRUE, !.c.teardowns = @ + 1]))
    /\ pc' = CallerEnd(call.fn)
    /\ UNCHANGED <<obj, call, ret>>
    /\ UNCHANGED thr

\* What a Compressor method has done to the history when it returns.
CompressorReturned(h, name, ok, input, output) ==
    [h EXCEPT !.o.ops = Append(@, <<name, ok, input # <<>> >>),
              !.o.cok = @ /\ ok,
              !.o.cin = IF ok THEN BCat(@, input) ELSE @,
              !.o.cout = IF ok THEN BCat(@, Deref(output)) ELSE @]

\* brotli_Compressor_process from the end label: PyBuffer_Release, and when
\* not ok ret = NULL and the BrotliError is set.
Compressor_process_end ==
    /\ pc = "Compressor_process_end"
    /\ ret' = IF loc.ok THEN loc.output ELSE NULL
    /\ err' = IF loc.ok THEN err ELSE "BrotliError"
    /\ hist' = CompressorReturned(hist, "process", loc.ok, call.input, loc.output)
    /\ obj' = [obj EXCEPT !.nops = @ + 1]
    /\ pc' = "idle"
    /\ UNCHANGED <<call, loc>>
    /\ UNCHANGED thr

\* brotli_Compressor_flush from the end label.
Compressor_flush_end ==
    /\ pc = "Compressor_flush_end"
    /\ ret' = IF loc.ok THEN loc.output ELSE NULL
    /\ err' = IF loc.ok THEN err ELSE "BrotliError"
    /\ hist' = CompressorReturned(hist, "flush", loc.ok, <<>>, loc.output)
    /\ obj' = [obj EXCEPT !.nops = @ + 1]
    /\ pc' = "idle"
    /\ UNCHANGED <<call, loc>>
    /\ UNCHANGED thr

\* A brotli_Compressor_finish that does not ask BrotliEncoderIsFinished.
Compressor_finish_end_NoCheck ==
    /\ pc = "Compressor_finish_end"
    /\ LET ok == loc.ok /\ obj.eng # NULL
       IN /\ ret' = IF ok THEN loc.output ELSE NULL
          /\ err' = IF ok THEN err ELSE "BrotliError"
          /\ hist' = CompressorReturned(hist, "finish", ok, <<>>, loc.output)
          /\ loc' = [loc EXCEPT !.ok = ok]
    /\ obj' = [obj EXCEPT !.nops = @ + 1]
    /\ pc' = "idle"
    /\ UNCHANGED call
    /\ UNCHANGED thr

\* brotli_Compressor_finish after compress_stream: when ok,
\* ok = BrotliEncoderIsFinished(self->enc); then the end label.
Compressor_finish_end ==
    /\ pc = "Compressor_finish_end"
    /\ LET ok == IF loc.ok /\ obj.eng # NULL
                 THEN BrotliEncoderIsFinished(Deref(obj.eng)) ELSE FALSE
       IN /\ ret' = IF ok THEN loc.output ELSE NULL
          /\ err' = IF ok THEN err ELSE "BrotliError"
          /\ hist' = CompressorReturned(hist, "finish", ok, <<>>, loc.output)
          /\ loc' = [loc EXCEPT !.ok = ok]
    /\ obj' = [obj EXCEPT !.nops = @ + 1]
    /\ pc' = "idle"
    /\ UNCHANGED call
    /\ UNCHANGED thr


\* ------------------------------------------------------------------------
\* decompress_stream and the Decompressor methods
\* ------------------------------------------------------------------------

\* brotli_Decompressor_process up to the call of decompress_stream.
Decompressor_process ==
    /\ pc = "idle"
    /\ obj.type = "Decompressor"
    /\ obj.nops < MaxOps
    /\ \E input \in StreamInputs :
        /\ call' = [fn |-> "Decompressor.process", input |-> input, args |-> <<>>]
        /\ loc' = IF obj.eng = NULL
                  THEN [NoLocals EXCEPT !.ok = FALSE]
                  ELSE DriverLocals("none", input)
    /\ pc' = IF obj.eng = NULL THEN "Decompressor_process_end"
             ELSE "decompress_stream_init"
    /\ ret' = NULL
    /\ err' = "none"
    /\ hist' = [hist EXCEPT !.c = [NoCallHist EXCEPT !.finishedAtEntry =
                    obj.eng # NULL /\ BrotliDecoderIsFinished(Deref(obj.eng))]]
    /\ obj' = obj
    /\ UNCHANGED thr

\* decompress_stream: BlocksOutputBuffer_InitAndGrow, then
\* result = BROTLI_DECODER_RESULT_NEEDS_MORE_OUTPUT before the loop.
decompress_stream_init ==
    /\ pc = "decompress_stream_init"
    /\ \E a \in AllocOutcomes :
        LET r == BlocksOutputBuffer_InitAndGrow(loc.buffer, loc.available_out,
                                                loc.next_out, a[1], a[2])
        IN IF r.rc < 0
           THEN /\ loc' = [loc EXCEPT !.buffer = r.buffer, !.ok = FALSE]
                /\ pc' = CallerEnd(call.fn)
                /\ err' = "MemoryError"
                /\ hist' = HostCall([hist EXCEPT !.c.allocFailed = TRUE])
           ELSE /\ loc' = [loc EXCEPT !.buffer = r.buffer,
                                      !.available_out = r.avail_out,
                                      !.next_out = r.next_out,
                                      !.result = BROTLI_DECODER_RESULT_NEEDS_MORE_OUTPUT]
                /\ pc' = "decompress_stream_step"
                /\ err' = err
                /\ hist' = Py_BEGIN_ALLOW_THREADS(HostCall(hist))
    /\ UNCHANGED <<obj, call, ret>>
    /\ UNCHANGED thr

\* A decompress_stream that steps again after an ERROR.
DecompressLoopNext_RetryOnError(result) ==
    IF result \in {BROTLI_DECODER_RESULT_NEEDS_MORE_OUTPUT, BROTLI_DECODER_RESULT_ERROR}
    THEN "decompress_stream_step"
    ELSE "decompress_stream_end"

\* The loop condition of decompress_stream.
DecompressLoopNext(result) ==
    IF result = BROTLI_DECODER_RESULT_NEEDS_MORE_OUTPUT
    THEN "decompress_stream_step"
    ELSE "decompress_stream_end"

\* decompress_stream: one BrotliDecoderDecompressStream call and the test of
\* available_out == 0 that follows it.
DecompressStep ==
    /\ pc = "decompress_stream_step"
    /\ LET r == BrotliDecoderDecompressStream(Deref(obj.eng), loc.next_in,
                                              loc.available_out)
       IN /\ obj' = [obj EXCEPT !.eng = Ref(r.dec)]
          /\ loc' = [loc EXCEPT !.result = r.result,
                                !.next_in = r.next_in,
                                !.available_in = BLen(r.next_in),
                                !.available_out = r.available_out,
                                !.next_out.off = @ + BLen(r.wr),
                                !.buffer = WriteWindow(@, loc.next_out, r.wr)]
          /\ hist' = [hist EXCEPT
                        !.c.written = BCat(@, r.wr), !.c.steps = @ + 1,
                        !.c.errorAt = IF r.result = BROTLI_DECODER_RESULT_ERROR /\ @ = 0
                                      THEN hist.c.steps + 1 ELSE @,
                        !.o.sawSuccess = @ \/ r.result = BROTLI_DECODER_RESULT_SUCCESS]
          /\ pc' = IF WindowFull(r.available_out) THEN "decompress_stream_grow"
                   ELSE DecompressLoopNext(r.result)
    /\ UNCHANGED <<call, ret, err>>

\* The step of decompress_stream made by the only thread there is.
decompress_stream_step == DecompressStep /\ UNCHANGED thr

\* decompress_stream: BlocksOutputBuffer_Grow; on failure
\* result = BROTLI_DECODER_RESULT_ERROR and break.
decompress_stream_grow ==
    /\ pc = "decompress_stream_grow"
    /\ \E a \in AllocOutcomes :
        LET r == BlocksOutputBuffer_Grow(loc.buffer, loc.available_out,
                                         loc.next_out, a[1], a[2])
        IN IF r.rc < 0
           THEN /\ loc' = [loc EXCEPT !.buffer = r.buffer,
                                      !.result = BROTLI_DECODER_RESULT_ERROR]
                /\ pc' = "decompress_stream_end"
                /\ err' = "MemoryError"
                /\ hist' = HostCall([hist EXCEPT !.c.allocFailed = TRUE, !.c.growFailed = TRUE])
           ELSE /\ loc' = [loc EXCEPT !.buffer = r.buffer,
                                      !.available_out = r.avail_out,
                                      !.next_out = r.next_out]
                /\ pc' = DecompressLoopNext(loc.result)
                /\ err' = err
                /\ hist' = HostCall([hist EXCEPT !.c.grows = @ + 1])
    /\ UNCHANGED <<obj, call, ret>>
    /\ UNCHANGED thr

\* A decompress_stream that takes only SUCCESS for ok, as brotli_decompress
\* does.
DecompressStreamOk_SuccessOnly(result, available_in) ==
    result = BROTLI_DECODER_RESULT_SUCCESS /\ available_in = 0

\* ok = result != BROTLI_DECODER_RESULT_ERROR && !available_in
DecompressStreamOk(result, available_in) ==
    result # BROTLI_DECODER_RESULT_ERROR /\ available_in = 0

\* decompress_stream after the loop: ok is computed, then
\* BlocksOutputBuffer_Finish when ok, else BlocksOutputBuffer_CleanUp.
decompress_stream_end ==
    /\ pc = "decompress_stream_end"
    /\ IF DecompressStreamOk(loc.result, loc.available_in)
       THEN \E result_ok \in BOOLEAN :
              LET f == BlocksOutputBuffer_Finish(loc.buffer, loc.available_out, result_ok)
              IN /\ loc' = [loc EXCEPT !.buffer = f.buffer, !.output = f.result,
                                       !.ok = (f.result # NULL)]
                 /\ err' = IF f.result = NULL THEN "MemoryError" ELSE err
                 /\ hist' = HostCall(Py_END_ALLOW_THREADS([hist EXCEPT !.c.finishCalled = TRUE, !.c.teardowns = @ + 1,
                                         !.c.allocFailed = @ \/ ~result_ok]))
       ELSE /\ loc' = [loc EXCEPT !.buffer = BlocksOutputBuffer_CleanUp(@),
                                  !.ok = FALSE]
            /\ err' = err
            /\ hist' = HostCall(Py_END_ALLOW_THREADS([hist EXCEPT !.c.cleanupCalled = TRUE, !.c.teardowns = @ + 1]))
    /\ pc' = CallerEnd(call.fn)
    /\ UNCHANGED <<obj, call, ret>>
    /\ UNCHANGED thr

\* brotli_Decompressor_process from the end label.
Decompressor_process_end ==
    /\ pc = "Decompressor_process_end"
    /\ ret' = IF loc.ok THEN loc.output ELSE NULL
    /\ err' = IF loc.ok THEN err ELSE "BrotliError"
    /\ hist' = [hist EXCEPT !.o.ops = Append(@, <<"process", loc.ok,
                                                   call.input # <<>> >>),
                            !.o.cok = @ /\ loc.ok]
    /\ obj' = [obj EXCEPT !.nops = @ + 1]
    /\ pc' = "idle"
    /\ UNCHANGED <<call, loc>>
    /\ UNCHANGED thr

\* An is_finished with the test of BrotliDecoderIsFinished inverted.
Decompressor_is_finished_Inverted ==
    /\ pc = "idle"
    /\ obj.type = "Decompressor"
    /\ call' = [fn |-> "Decompressor.is_finished", input |-> <<>>, args |-> <<>>]
    /\ loc' = NoLocals
    /\ hist' = [hist EXCEPT !.c = NoCallHist]
    /\ IF obj.eng = NULL
       THEN /\ ret' = NULL
            /\ err' = "BrotliError"
       ELSE /\ ret' = Ref(~BrotliDecoderIsFinished(Deref(obj.eng)))
            /\ err' = "none"
    /\ UNCHANGED <<obj, pc>>
    /\ UNCHANGED thr

\* brotli_Decompressor_is_finished: an error for a NULL decoder, else
\* Py_True or Py_False as BrotliDecoderIsFinished says.
Decompressor_is_finished ==
    /\ pc = "idle"
    /\ obj.type = "Decompressor"
    /\ call' = [fn |-> "Decompressor.is_finished", input |-> <<>>, args |-> <<>>]
    /\ loc' = NoLocals
    /\ hist' = [hist EXCEPT !.c = NoCallHist]
    /\ IF obj.eng = NULL
       THEN /\ ret' = NULL
            /\ err' = "BrotliError"
       ELSE /\ ret' = Ref(BrotliDecoderIsFinished(Deref(obj.eng)))
            /\ err' = "none"
    /\ UNCHANGED <<obj, pc>>
    /\ UNCHANGED thr

\* ------------------------------------------------------------------------
\* brotli_decompress (one shot)
\* ------------------------------------------------------------------------

\* brotli_decompress: the argument is parsed.  The input is what a
\* Compressor has put out once its finish call has returned, or, with no
\* object around, one of the fixed inputs.
brotli_decompress ==
    /\ pc = "idle"
    /\ \E input \in (IF obj.type = "Compressor" /\ call.fn = "Compressor.finish"
                     THEN {hist.o.cout}
                     ELSE IF obj.type = "none" THEN OneShotInputs ELSE {}) :
        call' = [fn |-> "decompress", input |-> input, args |-> <<>>]
    /\ loc' = NoLocals
    /\ pc' = "brotli_decompress_init"
    /\ ret' = NULL
    /\ err' = "none"
    /\ hist' = [hist EXCEPT !.c = NoCallHist]
    /\ obj' = obj
    /\ UNCHANGED thr

\* brotli_decompress: BlocksOutputBuffer_InitAndGrow; on failure it returns
\* NULL at once.
brotli_decompress_init ==
    /\ pc = "brotli_decompress_init"
    /\ \E a \in AllocOutcomes :
        LET r == BlocksOutputBuffer_InitAndGrow(loc.buffer, loc.available_out,
                                                loc.next_out, a[1], a[2])
        IN IF r.rc < 0
           THEN /\ loc' = [loc EXCEPT !.buffer = r.buffer, !.ok = FALSE]
                /\ pc' = "idle"
                /\ err' = "MemoryError"
                /\ hist' = HostCall([hist EXCEPT !.c.allocFailed = TRUE])
           ELSE /\ loc' = [loc EXCEPT !.buffer = r.buffer,
                                      !.available_out = r.avail_out,
                                      !.next_out = r.next_out]
                /\ pc' = "brotli_decompress_create"
                /\ err' = err
                /\ hist' = Py_BEGIN_ALLOW_THREADS(HostCall(hist))
    /\ UNCHANGED <<obj, call, ret>>
    /\ UNCHANGED thr

\* brotli_decompress: state = BrotliDecoderCreateInstance(0, 0, 0), which may
\* return NULL, and the assignments before the loop.
brotli_decompress_create ==
    /\ pc = "brotli_decompress_create"
    /\ \E created \in BOOLEAN :
        /\ loc' = [loc EXCEPT !.state = IF created THEN Ref(NewDecoder) ELSE NULL,
                              !.result = BROTLI_DECODER_RESULT_NEEDS_MORE_OUTPUT,
                              !.next_in = call.input,
                              !.available_in = BLen(call.input)]
        /\ hist' = [hist EXCEPT !.c.allocFailed = @ \/ ~created]
    /\ pc' = "brotli_decompress_step"
    /\ UNCHANGED <<obj, call, ret, err>>
    /\ UNCHANGED thr

\* A brotli_decompress that makes one engine step and does not loop.
OneShotLoopNext_Once(result) == "brotli_decompress_end"

\* The loop condition of brotli_decompress.
OneShotLoopNext(result) ==
    IF result = BROTLI_DECODER_RESULT_NEEDS_MORE_OUTPUT
    THEN "brotli_decompress_step"
    ELSE "brotli_decompress_end"

\* brotli_decompress: one BrotliDecoderDecompressStream call and the test of
\* available_out == 0.  The state pointer is not checked: with a NULL state
\* the engine dereferences NULL and the process is killed.
brotli_decompress_step ==
    /\ pc = "brotli_decompress_step"
    /\ IF loc.state = NULL
       THEN /\ pc' = "crashed"
            /\ UNCHANGED <<loc, hist>>
       ELSE LET r == BrotliDecoderDecompressStream(Deref(loc.state), loc.next_in,
                                                   loc.available_out)
            IN /\ loc' = [loc EXCEPT !.state = Ref(r.dec),
                                     !.result = r.result,
                                     !.next_in = r.next_in,
                                     !.available_in = BLen(r.next_in),
                                     !.available_out = r.available_out,
                                     !.next_out.off = @ + BLen(r.wr),
                                     !.buffer = WriteWindow(@, loc.next_out, r.wr)]
               /\ hist' = [hist EXCEPT
                             !.c.written = BCat(@, r.wr), !.c.steps = @ + 1,
                             !.c.errorAt = IF r.result = BROTLI_DECODER_RESULT_ERROR /\ @ = 0
                                           THEN hist.c.steps + 1 ELSE @]
               /\ pc' = IF WindowFull(r.available_out) THEN "brotli_decompress_grow"
                        ELSE OneShotLoopNext(r.result)
    /\ UNCHANGED <<obj, call, ret, err>>
    /\ UNCHANGED thr

\* What brotli_decompress does to result when BlocksOutputBuffer_Grow fails:
\* nothing, it only breaks out of the loop.
OneShotGrowFailed(result) == result

\* brotli_decompress: BlocksOutputBuffer_Grow; on failure break.
brotli_decompress_grow ==
    /\ pc = "brotli_decompress_grow"
    /\ \E a \in AllocOutcomes :
        LET r == BlocksOutputBuffer_Grow(loc.buffer, loc.available_out,
                                         loc.next_out, a[1], a[2])
        IN IF r.rc < 0
           THEN /\ loc' = [loc EXCEPT !.buffer = r.buffer,
                                      !.result = OneShotGrowFailed(@)]
                /\ pc' = "brotli_decompress_end"
                /\ err' = "MemoryError"
                /\ hist' = HostCall([hist EXCEPT !.c.allocFailed = TRUE, !.c.growFailed = TRUE])
           ELSE /\ loc' = [loc EXCEPT !.buffer = r.buffer,
                                      !.available_out = r.avail_out,
                                      !.next_out = r.next_out]
                /\ pc' = OneShotLoopNext(loc.result)
                /\ err' = err
                /\ hist' = HostCall([hist EXCEPT !.c.grows = @ + 1])
    /\ UNCHANGED <<obj, call, ret>>
    /\ UNCHANGED thr

\* A brotli_decompress that does not test available_in.
OneShotOk_IgnoreInput(result, available_in) ==
    result = BROTLI_DECODER_RESULT_SUCCESS

\* ok = result == BROTLI_DECODER_RESULT_SUCCESS && !available_in
OneShotOk(result, available_in) ==
    result = BROTLI_DECODER_RESULT_SUCCESS /\ available_in = 0

\* brotli_decompress after the loop: ok is computed, the decoder destroyed,
\* then BlocksOutputBuffer_Finish when ok, else BlocksOutputBuffer_CleanUp
\* and the BrotliError.  After a failed Grow the list is NULL: Finish then
\* allocates the result and, when that succeeds, reads Py_SIZE of the NULL
\* list, which kills the process.
brotli_decompress_end ==
    /\ pc = "brotli_decompress_end"
    /\ IF OneShotOk(loc.result, loc.available_in)
       THEN \E result_ok \in BOOLEAN :
              IF loc.buffer.list = NULL /\ result_ok
              THEN /\ pc' = "crashed"
                   /\ loc' = [loc EXCEPT !.ok = TRUE, !.state = NULL]
                   /\ hist' = HostCall(Py_END_ALLOW_THREADS([hist EXCEPT !.c.finishCalled = TRUE, !.c.teardowns = @ + 1]))
                   /\ UNCHANGED <<ret, err>>
              ELSE LET f == IF loc.buffer.list = NULL
                            THEN [result |-> NULL, buffer |-> loc.buffer]
                            ELSE BlocksOutputBuffer_Finish(loc.buffer, loc.available_out,
                                                           result_ok)
                   IN /\ pc' = "idle"
                      /\ loc' = [loc EXCEPT !.ok = TRUE, !.state = NULL,
                                            !.buffer = f.buffer, !.output = f.result]
                      /\ ret' = f.result
                      /\ err' = IF f.result = NULL THEN "MemoryError" ELSE err
                      /\ hist' = HostCall(Py_END_ALLOW_THREADS([hist EXCEPT !.c.finishCalled = TRUE, !.c.teardowns = @ + 1,
                                              !.c.allocFailed = @ \/ ~result_ok]))
       ELSE /\ pc' = "idle"
            /\ loc' = [loc EXCEPT !.ok = FALSE, !.state = NULL,
                                  !.buffer = BlocksOutputBuffer_CleanUp(@)]
            /\ ret' = NULL
            /\ err' = "BrotliError"
            /\ hist' = HostCall(Py_END_ALLOW_THREADS([hist EXCEPT !.c.cleanupCalled = TRUE, !.c.teardowns = @ + 1]))
    /\ UNCHANGED <<obj, call>>
    /\ UNCHANGED thr

\* ------------------------------------------------------------------------
\* Specification
\* ------------------------------------------------------------------------

Next ==
    \/ Compressor_new
    \/ Compressor_init
    \/ Compressor_dealloc
    \/ Decompressor_new
    \/ Decompressor_init
    \/ Decompressor_dealloc
    \/ Compressor_process
    \/ Compressor_flush
    \/ Compressor_finish
    \/ compress_stream_init
    \/ compress_stream_step
    \/ compress_stream_grow
    \/ compress_stream_end
    \/ Compressor_process_end
    \/ Compressor_flush_end
    \/ Compressor_finish_end
    \/ Decompressor_process
    \/ decompress_stream_init
    \/ decompress_stream_step
    \/ decompress_stream_grow
    \/ decompress_stream_end
    \/ Decompressor_process_end
    \/ Decompressor_is_finished
    \/ brotli_decompress
    \/ brotli_decompress_init
    \/ brotli_decompress_create
    \/ brotli_decompress_step
    \/ brotli_decompress_grow
    \/ brotli_decompress_end

Spec == Init /\ [][Next]_vars

\* ------------------------------------------------------------------------
\* The output buffer on its own: one BlocksOutputBuffer taken through
\* InitAndGrow, writes into the window, Grow when the window is full, and
\* the teardown calls (Finish, CleanUp) in the orders a caller can make them.
\* ------------------------------------------------------------------------

BufferInit ==
    /\ thr = NoThreads
    /\ obj = NoObject
    /\ pc = "buffer_new"
    /\ call = [fn |-> "BlocksOutputBuffer", input |-> <<>>, args |-> <<>>]
    /\ loc = NoLocals
    /\ ret = NULL
    /\ err = "none"
    /\ hist = [c |-> NoCallHist, o |-> NoObjHist]

\* BlocksOutputBuffer_InitAndGrow(&buffer, &available_out, &next_out).
Buffer_InitAndGrow ==
    /\ pc = "buffer_new"
    /\ \E a \in AllocOutcomes :
        LET r == BlocksOutputBuffer_InitAndGrow(loc.buffer, loc.available_out,
                                                loc.next_out, a[1], a[2])
        IN IF r.rc < 0
           THEN /\ loc' = [loc EXCEPT !.buffer = r.buffer]
                /\ pc' = "buffer_failed"
                /\ hist' = [hist EXCEPT !.c.allocFailed = TRUE]
           ELSE /\ loc' = [loc EXCEPT !.buffer = r.buffer,
                                      !.available_out = r.avail_out,
                                      !.next_out = r.next_out]
                /\ pc' = "buffer_open"
                /\ hist' = hist
    /\ UNCHANGED <<obj, call, ret, err>>
    /\ UNCHANGED thr

\* How many bytes a write into the window puts there: all that fits, or one
\* byte into an untouched window.
WriteSizes(available_out, off) ==
    {available_out} \cup (IF off = 0 THEN {1} ELSE {})

\* The user of the buffer writes at next_out and moves next_out and
\* available_out on, as the engine does in a step.
Buffer_Write ==
    /\ pc = "buffer_open"
    /\ loc.available_out > 0
    /\ \E k \in WriteSizes(loc.available_out, loc.next_out.off) :
        LET wr == BRun("a", k) IN
        /\ loc' = [loc EXCEPT !.available_out = @ - k,
                              !.next_out.off = @ + k,
                              !.buffer = WriteWindow(@, loc.next_out, wr)]
        /\ hist' = [hist EXCEPT !.c.written = BCat(@, wr), !.c.steps = @ + 1]
    /\ UNCHANGED <<obj, pc, call, ret, err>>
    /\ UNCHANGED thr

\* BlocksOutputBuffer_Grow, called as its comment asks: with available_out
\* == 0.
Buffer_Grow ==
    /\ pc = "buffer_open"
    /\ loc.available_out = 0
    /\ hist.c.grows < MaxGrows
    /\ \E a \in AllocOutcomes :
        LET r == BlocksOutputBuffer_Grow(loc.buffer, loc.available_out,
                                         loc.next_out, a[1], a[2])
        IN IF r.rc < 0
           THEN /\ loc' = [loc EXCEPT !.buffer = r.buffer]
                /\ pc' = "buffer_grow_failed"
                /\ err' = "MemoryError"
                /\ hist' = [hist EXCEPT !.c.allocFailed = TRUE, !.c.growFailed = TRUE]
           ELSE /\ loc' = [loc EXCEPT !.buffer = r.buffer,
                                      !.available_out = r.avail_out,
                                      !.next_out = r.next_out]
                /\ pc' = pc
                /\ err' = err
                /\ hist' = [hist EXCEPT !.c.grows = @ + 1]
    /\ UNCHANGED <<obj, call, ret>>
    /\ UNCHANGED thr

\* BlocksOutputBuffer_Finish(&buffer, available_out).
Buffer_Finish ==
    /\ pc = "buffer_open"
    /\ \E result_ok \in BOOLEAN :
        LET f == BlocksOutputBuffer_Finish(loc.buffer, loc.available_out, result_ok)
        IN /\ loc' = [loc EXCEPT !.buffer = f.buffer, !.output = f.result]
           /\ pc' = IF f.result = NULL THEN "buffer_finish_failed" ELSE "buffer_finished"
           /\ ret' = f.result
           /\ err' = IF f.result = NULL THEN "MemoryError" ELSE err
           /\ hist' = [hist EXCEPT !.c.finishCalled = TRUE, !.c.teardowns = @ + 1,
                                   !.c.allocFailed = @ \/ ~result_ok]
    /\ UNCHANGED <<obj, call>>
    /\ UNCHANGED thr

\* BlocksOutputBuffer_CleanUp(&buffer): as the only teardown, after a failed
\* InitAndGrow, Grow or Finish, or a second time.
Buffer_CleanUp ==
    /\ pc \in {"buffer_open", "buffer_failed", "buffer_grow_failed",
               "buffer_finish_failed", "buffer_cleaned"}
    /\ loc' = [loc EXCEPT !.buffer = BlocksOutputBuffer_CleanUp(@)]
    /\ pc' = IF pc = "buffer_cleaned" THEN "buffer_cleaned_twice" ELSE "buffer_cleaned"
    /\ hist' = [hist EXCEPT !.c.cleanupCalled = TRUE, !.c.teardowns = @ + 1]
    /\ UNCHANGED <<obj, call, ret, err>>
    /\ UNCHANGED thr

BufferNext ==
    \/ Buffer_InitAndGrow
    \/ Buffer_Write
    \/ Buffer_Grow
    \/ Buffer_Finish
    \/ Buffer_CleanUp

BufferSpec == BufferInit /\ [][BufferNext]_vars

\* ------------------------------------------------------------------------
\* Two threads of the host calling methods of one Compressor or one
\* Decompressor.  One thread runs at a time in the model; the variables pc,
\* call, loc, ret, err and hist.c are the running thread's, thr.other holds
\* the suspended thread's.  The object and its engine are shared.
\* ------------------------------------------------------------------------

\* Compressor() without arguments.
DefaultArgs == [mode |-> NULL, quality |-> NULL, lgwin |-> NULL, lgblock |-> NULL]

\* The objects the two threads may share: a Compressor or a Decompressor as
\* its constructor leaves it.
SharedObjects ==
    { [type |-> "Compressor",
       eng |-> Ref(SetParameters(NewEncoder, ParseCompressorArgs(DefaultArgs))),
       nops |-> 0],
      [type |-> "Decompressor", eng |-> Ref(NewDecoder), nops |-> 0] }

ThreadInit ==
    /\ thr = NoThreads
    /\ obj \in SharedObjects
    /\ pc = "idle"
    /\ call = NoCall
    /\ loc = NoLocals
    /\ ret = NULL
    /\ err = "none"
    /\ hist = [c |-> NoCallHist, o |-> [NoObjHist EXCEPT !.engines = 1]]

\* The host suspends the running thread and runs the other one.  It can do
\* so between two calls of the thread (the host's lock is handed over) and
\* while the thread has released the lock, between Py_BEGIN_ALLOW_THREADS
\* and Py_END_ALLOW_THREADS; a thread inside a call that holds the lock
\* keeps running.
Switch ==
    /\ pc # "crashed"
    /\ pc = "idle" \/ ~hist.c.gil
    /\ thr' = [cur |-> 3 - thr.cur,
               inEngine |-> thr.inEngine,
               other |-> [pc |-> pc, call |-> call, loc |-> loc, ret |-> ret,
                          err |-> err, hc |-> hist.c]]
    /\ pc' = thr.other.pc
    /\ call' = thr.other.call
    /\ loc' = thr.other.loc
    /\ ret' = thr.other.ret
    /\ err' = thr.other.err
    /\ hist' = [hist EXCEPT !.c = thr.other.hc]
    /\ obj' = obj

\* The running thread is at the engine call of the loop of compress_stream
\* or decompress_stream.
AtEngineCall == pc \in {"compress_stream_step", "decompress_stream_step"}

\* The running thread enters BrotliEncoderCompressStream or
\* BrotliDecoderDecompressStream on the object's engine.  The drivers take
\* no lock of their own before the call.
EngineCall ==
    /\ AtEngineCall
    /\ ~thr.inEngine[thr.cur]
    /\ thr' = [thr EXCEPT !.inEngine[thr.cur] = TRUE]
    /\ UNCHANGED <<obj, pc, call, loc, ret, err, hist>>

\* The running thread's BrotliEncoderCompressStream call returns.
compress_stream_return ==
    /\ thr.inEngine[thr.cur]
    /\ CompressStep
    /\ thr' = [thr EXCEPT !.inEngine[thr.cur] = FALSE]

\* The running thread's BrotliDecoderDecompressStream call returns.
decompress_stream_return ==
    /\ thr.inEngine[thr.cur]
    /\ DecompressStep
    /\ thr' = [thr EXCEPT !.inEngine[thr.cur] = FALSE]

\* Both threads are inside an engine call on the same engine state: a data
\* race.  Each call may return as if it were alone (the two actions above),
\* or the process is killed.
EngineRace ==
    /\ thr.inEngine = <<TRUE, TRUE>>
    /\ pc # "crashed"
    /\ pc' = "crashed"
    /\ UNCHANGED <<obj, call, loc, ret, err, hist, thr>>

\* The running thread may begin a call: the two threads have not yet begun
\* MaxThreadCalls calls between them.
MayCall ==
    obj.nops + (IF thr.other.pc = "idle" THEN 0 ELSE 1) < MaxThreadCalls

\* The inputs the threads pass to Compressor.process and
\* Decompressor.process: more than the first block holds, and less.
ThreadInputs ==
    { BRun("a", 200000), BRun("b", 1),
      BRun("b", 40000), BCat(BRun("a", 32768), Terminator) }

\* The running thread calls a method of the shared object.
Thread_process == MayCall /\ Compressor_process /\ call'.input \in ThreadInputs
Thread_flush == MayCall /\ Compressor_flush
Thread_finish == MayCall /\ Compressor_finish
Thread_decompress == MayCall /\ Decompressor_process /\ call'.input \in ThreadInputs

ThreadNext ==
    \/ Switch
    \/ EngineCall
    \/ compress_stream_return
    \/ decompress_stream_return
    \/ EngineRace
    \/ Thread_process
    \/ Thread_flush
    \/ Thread_finish
    \/ compress_stream_init
    \/ compress_stream_grow
    \/ compress_stream_end
    \/ Compressor_process_end
    \/ Compressor_flush_end
    \/ Compressor_finish_end
    \/ Thread_decompress
    \/ decompress_stream_init
    \/ decompress_stream_grow
    \/ decompress_stream_end
    \/ Decompressor_process_end

ThreadSpec == ThreadInit /\ [][ThreadNext]_vars

\* ------------------------------------------------------------------------
\* The drivers run by one thread that goes on running: a constructed
\* Compressor or Decompressor, or no object and the one-shot decompress; a
\* step of the thread that can be taken is taken in the end.
\* ------------------------------------------------------------------------

DriverInit ==
    /\ thr = NoThreads
    /\ obj \in SharedObjects \cup {NoObject}
    /\ pc = "idle"
    /\ call = NoCall
    /\ loc = NoLocals
    /\ ret = NULL
    /\ err = "none"
    /\ hist = [c |-> NoCallHist,
               o |-> [NoObjHist EXCEPT !.engines = IF obj.type = "none" THEN 0 ELSE 1]]

\* Every step of the thread but the step of compress_stream.
DriverOther ==
    \/ Thread_process
    \/ Thread_flush
    \/ Thread_finish
    \/ compress_stream_init
    \/ compress_stream_grow
    \/ compress_stream_end
    \/ Compressor_process_end
    \/ Compressor_flush_end
    \/ Compressor_finish_end
    \/ Thread_decompress
    \/ decompress_stream_init
    \/ decompress_stream_step
    \/ decompress_stream_grow
    \/ decompress_stream_end
    \/ Decompressor_process_end
    \/ brotli_decompress
    \/ brotli_decompress_init
    \/ brotli_decompress_create
    \/ brotli_decompress_step
    \/ brotli_decompress_grow
    \/ brotli_decompress_end

DriverNext == compress_stream_step \/ DriverOther

\* The thread goes on running.  The step of compress_stream can be taken
\* exactly when the thread stands at it (the Compressor holds an encoder),
\* so its weak fairness is written out: the thread does not stand at the
\* step for ever without taking it.
DriverFair ==
    /\ WF_vars(DriverOther)
    /\ \/ []<>(pc # "compress_stream_step")
       \/ []<><<compress_stream_step>>_vars

DriverSpec == DriverInit /\ [][DriverNext]_vars /\ DriverFair

\* ------------------------------------------------------------------------
\* Properties
\* ------------------------------------------------------------------------

\* The calls that run one of the three drivers.
DriverCalls ==
    {"Compressor.process", "Compressor.flush", "Compressor.finish",
     "Decompressor.process", "decompress"}

\* A driver call has returned with a result.
ReturnedResult == pc = "idle" /\ call.fn \in DriverCalls /\ ret # NULL

\* C1: when a driver call returns a result, the result is exactly the bytes
\* the engine wrote into the windows during the call, in write order, and
\* its length is their number K; this holds for compress_stream,
\* decompress_stream and brotli_decompress.  When Finish was called and no
\* allocation failed there is a result, also for K = 0 (an empty one).
C1_FinishReturnsWritten ==
    /\ ReturnedResult =>
          /\ Deref(ret) = hist.c.written
          /\ BLen(Deref(ret)) = BLen(hist.c.written)
    /\ (pc \in {"Compressor_process_end", "Compressor_flush_end",
                "Compressor_finish_end", "Decompressor_process_end"}
          /\ hist.c.finishCalled /\ ~hist.c.allocFailed) =>
          /\ loc.output = Ref(hist.c.written)
          /\ (hist.c.written = <<>> => loc.output = Ref(<<>>))
    /\ (pc = "idle" /\ call.fn = "decompress"
          /\ hist.c.finishCalled /\ ~hist.c.allocFailed) =>
          ret = Ref(hist.c.written)

\* A result that spans three blocks with the last one partly used.
C1_Witness ==
    /\ ReturnedResult
    /\ hist.c.grows = 2
    /\ BLen(Deref(ret)) > 32768 + 65536
    /\ BLen(Deref(ret)) < 32768 + 65536 + 262144

\* An empty result returned without error.
C1_WitnessEmpty ==
    ReturnedResult /\ hist.c.written = <<>> /\ ret = Ref(<<>>) /\ err = "none"

\* The one-shot decompress has come back (with or without a result) from
\* the output of the Compressor.
DecompressedCompressorOutput ==
    /\ pc = "idle"
    /\ call.fn = "decompress"
    /\ obj.type = "Compressor"
    /\ call.input = hist.o.cout

\* The calls made on the Compressor were n successful process calls, each
\* with a non-empty input when nonEmpty, and then one successful finish.
ProcessThenFinish(n, nonEmpty) ==
    /\ Len(hist.o.ops) = n + 1
    /\ \A i \in 1..n :
          /\ hist.o.ops[i][1] = "process"
          /\ hist.o.ops[i][2]
          /\ nonEmpty => hist.o.ops[i][3]
    /\ hist.o.ops[n + 1][1] = "finish"
    /\ hist.o.ops[n + 1][2]

\* C2: for a byte string S (the empty one included), with c a fresh
\* Compressor, decompress(c.process(S) + c.finish()) returns S: a result
\* that is returned equals S, and one is returned unless an allocation
\* fails in decompress.
C2_RoundTrip ==
    (DecompressedCompressorOutput /\ ProcessThenFinish(1, FALSE)) =>
        /\ ret # NULL => Deref(ret) = hist.o.cin
        /\ ~hist.c.allocFailed => ret = Ref(hist.o.cin)

\* The round trip of the 200000-byte input has returned it.
C2_Witness ==
    /\ DecompressedCompressorOutput
    /\ ProcessThenFinish(1, FALSE)
    /\ hist.o.cin = BRun("a", 200000)
    /\ ret = Ref(BRun("a", 200000))

\* The round trip of the empty input has returned the empty string.
C2_WitnessEmpty ==
    /\ DecompressedCompressorOutput
    /\ ProcessThenFinish(1, FALSE)
    /\ hist.o.cin = <<>>
    /\ ret = Ref(<<>>)

\* C3: for non-empty pieces S1..Sn (n >= 2) given one per process call to a
\* fresh Compressor, decompress of the process results and the finish
\* result, concatenated in call order, returns S1..Sn concatenated.
C3_ChunkedRoundTrip ==
    \A n \in 2..(MaxOps - 1) :
        (DecompressedCompressorOutput /\ ProcessThenFinish(n, TRUE)) =>
            /\ ret # NULL => Deref(ret) = hist.o.cin
            /\ ~hist.c.allocFailed => ret = Ref(hist.o.cin)

\* Two pieces of different bytes, the second longer than two encoder
\* blocks, have come back in order.
C3_Witness ==
    /\ DecompressedCompressorOutput
    /\ ProcessThenFinish(2, TRUE)
    /\ hist.o.cin = BCat(BRun("b", 1), BRun("a", 200000))
    /\ ret = Ref(hist.o.cin)

\* A Compressor method has returned.
CompressorCallReturned ==
    /\ pc = "idle"
    /\ call.fn \in {"Compressor.process", "Compressor.flush", "Compressor.finish"}

\* Before the call that returned last, a finish call had succeeded.
FinishedBefore ==
    \E i \in 1..(Len(hist.o.ops) - 1) :
        hist.o.ops[i][1] = "finish" /\ hist.o.ops[i][2]

\* C4: after finish() has succeeded on a Compressor, every later process,
\* flush or finish call on it (process with empty input included) fails
\* with an error and returns no data.
C4_NoCallAfterFinish ==
    (CompressorCallReturned /\ FinishedBefore) =>
        ret = NULL /\ err = "BrotliError"

\* After finish(), a process call with non-empty input has failed.
C4_Witness ==
    /\ CompressorCallReturned
    /\ FinishedBefore
    /\ call.fn = "Compressor.process"
    /\ call.input # <<>>
    /\ ret = NULL

\* Decompressor.is_finished has returned a value.
IsFinishedReturned ==
    pc = "idle" /\ call.fn = "Decompressor.is_finished" /\ ret # NULL

\* C5: Decompressor.is_finished returns false as long as no engine step of
\* this Decompressor has reported FINISHED and true from then on, whatever
\* process calls follow; the call itself leaves the object and the engine
\* as they are, makes no engine step and is an error in no state.
C5_IsFinished ==
    /\ [](IsFinishedReturned => ret = Ref(hist.o.sawSuccess))
    /\ [][Decompressor_is_finished =>
            /\ obj' = obj
            /\ pc' = "idle"
            /\ hist'.o = hist.o
            /\ hist'.c.steps = 0
            /\ (obj.eng # NULL => ret' # NULL /\ err' = "none")]_vars
    /\ [][(hist.o.sawSuccess /\ obj'.type = "Decompressor") =>
            hist'.o.sawSuccess /\ BrotliDecoderIsFinished(Deref(obj'.eng))]_vars

\* is_finished has returned true after the stream ended and a later
\* process call with empty input succeeded.
C5_Witness ==
    /\ IsFinishedReturned
    /\ ret = Ref(TRUE)
    /\ Len(hist.o.ops) >= 2
    /\ hist.o.ops[Len(hist.o.ops)] = <<"process", TRUE, FALSE>>
    /\ hist.o.ops[1][2]

\* is_finished has returned false after a successful process call.
C5_WitnessFalse ==
    /\ IsFinishedReturned
    /\ ret = Ref(FALSE)
    /\ Len(hist.o.ops) >= 1
    /\ hist.o.ops[1] = <<"process", TRUE, TRUE>>

\* brotli_decompress has returned after its loop ran.
OneShotReturned == pc = "idle" /\ call.fn = "decompress" /\ hist.c.steps > 0

\* The loop of brotli_decompress ended with FINISHED and no input left.
OneShotEndedFinished ==
    loc.result = BROTLI_DECODER_RESULT_SUCCESS /\ loc.available_in = 0

\* C6 as stated: brotli_decompress returns a result if and only if the
\* driver loop ends with FINISHED and available_in == 0.
C6_ResultIffFinished ==
    OneShotReturned => (ret # NULL <=> OneShotEndedFinished)

\* C6 amended: brotli_decompress returns a result if and only if the driver
\* loop ends with FINISHED and available_in == 0 and no allocation has
\* failed (grow's or that of finish's result); when the loop ends otherwise
\* (ERROR, needs-more-input, data after the end) finish is not called and
\* the call fails with the BrotliError; a call that does not return gives
\* no result.
C6_ResultIffFinishedAndAllocated ==
    /\ OneShotReturned =>
          /\ ret # NULL <=> (OneShotEndedFinished /\ ~hist.c.allocFailed)
          /\ hist.c.finishCalled <=> OneShotEndedFinished
          /\ ~OneShotEndedFinished =>
                ret = NULL /\ err = "BrotliError" /\ hist.c.cleanupCalled
    /\ (call.fn = "decompress" /\ pc = "crashed") => ret = NULL

\* The loop ended with FINISHED and no input left, and the allocation in
\* finish failed: no result.
C6_Witness ==
    /\ OneShotReturned
    /\ OneShotEndedFinished
    /\ hist.c.finishCalled
    /\ ~hist.c.growFailed
    /\ ret = NULL

\* Data after the end of the stream: no result.
C6_WitnessTrailing ==
    /\ OneShotReturned
    /\ loc.result = BROTLI_DECODER_RESULT_SUCCESS
    /\ loc.available_in > 0
    /\ ret = NULL

\* Decompressor.process has returned after the loop of decompress_stream
\* ran.
StreamReturned ==
    pc = "idle" /\ call.fn = "Decompressor.process" /\ hist.c.steps > 0

\* The loop of decompress_stream ended without ERROR and with no input left.
StreamEndedOk ==
    loc.result # BROTLI_DECODER_RESULT_ERROR /\ loc.available_in = 0

\* C7 as stated: Decompressor.process succeeds exactly when the loop's
\* final status is not ERROR and available_in == 0.
C7_SuccessIffOk ==
    StreamReturned => (ret # NULL <=> StreamEndedOk)

\* C7 amended: Decompressor.process succeeds exactly when the loop's final
\* status is not ERROR, available_in == 0 and the allocation of finish's
\* result succeeds.  Before completion a call whose input is consumed
\* succeeds and leaves the decompressor not finished; at FINISHED process
\* with empty input returns an empty result, and process with non-empty
\* input fails with none of it consumed.
C7_SuccessIffOkAndAllocated ==
    StreamReturned =>
        /\ ret # NULL <=> (StreamEndedOk /\ ~hist.c.allocFailed)
        /\ hist.c.finishCalled <=> StreamEndedOk
        /\ (ret # NULL /\ loc.result = BROTLI_DECODER_RESULT_NEEDS_MORE_INPUT) =>
              ~BrotliDecoderIsFinished(Deref(obj.eng))
        /\ (hist.c.finishedAtEntry /\ call.input = <<>> /\ ~hist.c.allocFailed) =>
              ret = Ref(<<>>)
        /\ (hist.c.finishedAtEntry /\ call.input # <<>>) =>
              /\ ret = NULL
              /\ err = "BrotliError"
              /\ loc.available_in = BLen(call.input)

\* The loop ended with needs-more-input and all input consumed, and the
\* allocation in finish failed: the call failed.
C7_Witness ==
    /\ StreamReturned
    /\ loc.result = BROTLI_DECODER_RESULT_NEEDS_MORE_INPUT
    /\ loc.available_in = 0
    /\ hist.c.finishCalled
    /\ ret = NULL

\* process with empty input at FINISHED has returned an empty result.
C7_WitnessFinishedEmpty ==
    StreamReturned /\ hist.c.finishedAtEntry /\ call.input = <<>> /\ ret = Ref(<<>>)

\* process with non-empty input at FINISHED has failed.
C7_WitnessFinishedNonEmpty ==
    StreamReturned /\ hist.c.finishedAtEntry /\ call.input # <<>> /\ ret = NULL

\* brotli_Compressor_init has returned for an object brotli_Compressor_new
\* made.
CompressorInitReturned ==
    /\ call.fn = "Compressor"
    /\ obj.type = "Compressor"
    /\ pc \in {"idle", "Compressor_dealloc"}

\* An argument is not supplied or is an int of the given set.
ArgWithin(a, S) ==
    a = NULL \/ (Deref(a).t = "int" /\ ~Deref(a).big /\ Deref(a).v \in S)

\* The parameter sets C8 names.
ValidCompressorArgs(args) ==
    /\ ArgWithin(args.mode, {0, 1, 2})
    /\ ArgWithin(args.quality, 0..11)
    /\ ArgWithin(args.lgwin, 10..24)
    /\ ArgWithin(args.lgblock, {0} \cup 16..24)

\* C8: construction of a Compressor accepts its parameters if and only if
\* mode is GENERIC, TEXT or FONT, quality is in 0..11, lgwin in 10..24 and
\* lgblock is 0 or in 16..24; anything else fails with the BrotliError and
\* no object.  (Accepted parameters give an object unless the encoder
\* could not be allocated.)
C8_ParametersAccepted ==
    CompressorInitReturned =>
        /\ (pc = "idle" /\ ret # NULL) => ValidCompressorArgs(call.args)
        /\ ~ValidCompressorArgs(call.args) =>
              pc = "Compressor_dealloc" /\ ret = NULL /\ err = "BrotliError"
        /\ (ValidCompressorArgs(call.args) /\ obj.eng # NULL) =>
              pc = "idle" /\ ret = Ref("Compressor") /\ err = "none"

\* lgblock = 15 alone has been rejected.
C8_Witness ==
    /\ CompressorInitReturned
    /\ call.args = [mode |-> NULL, quality |-> NULL, lgwin |-> NULL,
                    lgblock |-> Ref(PyInt(15))]
    /\ pc = "Compressor_dealloc"
    /\ err = "BrotliError"

\* The largest values of all four parameters have been accepted.
C8_WitnessAccepted ==
    /\ CompressorInitReturned
    /\ call.args = [mode |-> Ref(PyInt(2)), quality |-> Ref(PyInt(11)),
                    lgwin |-> Ref(PyInt(24)), lgblock |-> Ref(PyInt(24))]
    /\ pc = "idle"
    /\ ret = Ref("Compressor")

\* Construction has been rejected for an invalid argument.
Rejected == pc = "Compressor_dealloc" /\ err = "BrotliError"

\* C9 as stated: when construction is rejected for an invalid argument, no
\* engine instance has been allocated.
C9_RejectedBeforeEngine ==
    Rejected => (obj.eng = NULL /\ hist.o.engines = 0)

\* C9 amended: when construction is rejected for an invalid argument, the
\* one engine instance brotli_Compressor_new may have created has had no
\* parameter set and has made no step, and it is destroyed when the
\* rejected object is released: no engine instance is left.
C9_RejectedBeforeEngineUse ==
    /\ Rejected =>
          /\ hist.o.engines <= 1
          /\ (obj.eng = NULL <=> hist.o.engines = 0)
          /\ obj.eng # NULL => Deref(obj.eng) = NewEncoder
          /\ hist.c.steps = 0
    /\ (pc = "idle" /\ call.fn = "Compressor.dealloc") =>
          obj = NoObject /\ hist.o.engines = 0

\* Rejected with the engine instance in existence.
C9_Witness == Rejected /\ obj.eng # NULL /\ hist.o.engines = 1

\* The rejected object has been released.
C9_WitnessReleased ==
    pc = "idle" /\ call.fn = "Compressor.dealloc" /\ err = "BrotliError"

\* C10: in every driver, once grow has failed the chunks are released, the
\* operation fails with an error and finish is not invoked, also when the
\* engine had reported FINISHED with the window exactly full.
C10_GrowFailureFails ==
    hist.c.growFailed =>
        /\ loc.buffer.list = NULL
        /\ ~hist.c.finishCalled
        /\ pc # "crashed"
        /\ pc = "idle" => (ret = NULL /\ err # "none")

\* compress_stream and decompress_stream have failed after a failed grow,
\* without calling finish.
C10_Witness ==
    /\ hist.c.growFailed
    /\ pc = "idle"
    /\ call.fn \in {"Compressor.process", "Decompressor.process"}
    /\ ret = NULL
    /\ hist.c.cleanupCalled

\* An engine step of the running operation has reported an error.
EngineErrorReported == call.fn \in DriverCalls /\ hist.c.errorAt > 0

\* C11: once an engine step has reported ERROR in a driver, no further
\* engine step is made in that operation, finish is not called, the buffer
\* is torn down with cleanup, and the operation fails with the BrotliError
\* and no result, partial or other.
C11_EngineErrorAborts ==
    EngineErrorReported =>
        /\ hist.c.steps = hist.c.errorAt
        /\ ~hist.c.finishCalled
        /\ loc.output = NULL
        /\ pc # "crashed"
        /\ (pc \in {"Compressor_process_end", "Compressor_flush_end",
                    "Compressor_finish_end", "Decompressor_process_end"}) =>
              hist.c.cleanupCalled /\ ~loc.ok
        /\ pc = "idle" =>
              hist.c.cleanupCalled /\ ret = NULL /\ err = "BrotliError"

\* The decoder reported ERROR after it had written a full window: the call
\* has failed with nothing returned.
C11_Witness ==
    /\ EngineErrorReported
    /\ pc = "idle"
    /\ call.fn = "Decompressor.process"
    /\ hist.c.written = BRun("b", 32768)
    /\ ret = NULL

\* The encoder refused a step: the Compressor call has failed.
C11_WitnessCompressor ==
    /\ EngineErrorReported
    /\ pc = "idle"
    /\ call.fn = "Compressor.process"
    /\ ret = NULL
    /\ err = "BrotliError"

\* The one-shot decompress has failed on an invalid byte.
C11_WitnessOneShot ==
    EngineErrorReported /\ pc = "idle" /\ call.fn = "decompress" /\ ret = NULL

\* The buffer exercised on its own has been torn down: a teardown call has
\* been made on it, or a failed Grow has cleared it.
BufferTornDown ==
    pc \in {"buffer_finished", "buffer_finish_failed", "buffer_grow_failed",
            "buffer_cleaned", "buffer_cleaned_twice"}

\* C12: for one buffer, whatever the teardown sequence (cleanup twice,
\* cleanup after a failed grow, cleanup after a failed finish, a single
\* finish), the chunk storage is released exactly once: never twice, and
\* not zero times once the buffer that held chunks is torn down.
C12_ReleasedExactlyOnce ==
    /\ loc.buffer.released <= 1
    /\ (BufferTornDown /\ loc.buffer.allocated > 0) => loc.buffer.released = 1

\* Cleanup after a failed grow, and once more, has released the storage
\* once.
C12_Witness ==
    /\ pc = "buffer_cleaned_twice"
    /\ hist.c.growFailed
    /\ loc.buffer.released = 1

\* C13: while the host's lock is released (the loop of compress_stream,
\* decompress_stream and brotli_decompress), the calling thread never uses
\* the host's objects: every allocation of a host object, list append,
\* reference release and error setting, those of Grow included, is made
\* with the lock held.
C13_HostStateOnlyUnderLock == ~hist.c.hostUnlocked

\* A Compressor.process whose output filled the first block has grown the
\* buffer inside the loop, with the lock released.
C13_Witness ==
    /\ call.fn = "Compressor.process"
    /\ pc = "compress_stream_step"
    /\ hist.c.grows = 1
    /\ ~hist.c.gil
    /\ hist.c.hostUnlocked

\* The encoder of the object has output it has not handed over yet.
EncoderPending == BrotliEncoderHasMoreOutput(Deref(obj.eng))

\* compress_stream is running for a method of the Compressor.
InCompressStream ==
    call.fn \in {"Compressor.process", "Compressor.flush", "Compressor.finish"}

\* C15: compress_stream makes another engine step exactly when, after a
\* successful step and any grow it needed, input is left or the encoder has
\* pending output, and leaves the loop otherwise; so a process/flush/finish
\* that succeeds returns with available_in == 0 and no pending output, and
\* has stepped the encoder at least once, also for empty input.
C15_LoopUntilDrained ==
    InCompressStream =>
        /\ (pc = "compress_stream_step" /\ hist.c.steps > 0) =>
              loc.ok /\ (loc.available_in > 0 \/ EncoderPending)
        /\ (pc = "compress_stream_end" /\ loc.ok) =>
              loc.available_in = 0 /\ ~EncoderPending
        /\ (pc \in {"Compressor_process_end", "Compressor_flush_end",
                    "Compressor_finish_end"} /\ loc.ok) =>
              loc.available_in = 0 /\ ~EncoderPending /\ hist.c.steps >= 1
        /\ (pc = "idle" /\ ret # NULL) =>
              loc.available_in = 0 /\ ~EncoderPending /\ hist.c.steps >= 1

\* A process of more input than the first block holds has returned its
\* result after several steps and a grow.
C15_Witness ==
    /\ pc = "idle"
    /\ call.fn = "Compressor.flush"
    /\ ret # NULL
    /\ hist.c.steps > 2
    /\ hist.c.grows > 0

\* A process of empty input has returned its result after one step.
C15_WitnessEmpty ==
    /\ pc = "idle"
    /\ call.fn = "Compressor.process"
    /\ call.input = <<>>
    /\ ret # NULL
    /\ hist.c.steps = 1

\* A driver is about to call BlocksOutputBuffer_Grow.
AtGrow ==
    pc \in {"compress_stream_grow", "decompress_stream_grow",
            "brotli_decompress_grow"}

\* C16: the assertion of BlocksOutputBuffer_Grow always holds: in every
\* driver Grow is called only with available_out == 0, after the engine
\* has filled the whole window it was given (the bytes written so far fill
\* all that is allocated).
C16_GrowOnlyWhenFull ==
    AtGrow =>
        /\ loc.available_out = 0
        /\ hist.c.steps > 0
        /\ BLen(hist.c.written) = loc.buffer.allocated

\* compress_stream is about to grow a buffer whose first block is full.
C16_Witness ==
    /\ pc = "compress_stream_grow"
    /\ loc.available_out = 0
    /\ loc.buffer.allocated = 32 * KB

\* compress_stream is about to grow a buffer for the second time.
C16_WitnessSecond ==
    /\ pc = "compress_stream_grow"
    /\ loc.available_out = 0
    /\ hist.c.grows = 1

\* decompress_stream is about to grow its buffer.
C16_WitnessStream ==
    /\ pc = "decompress_stream_grow"
    /\ loc.available_out = 0

\* brotli_decompress is about to grow its buffer.
C16_WitnessOneShot ==
    /\ pc = "brotli_decompress_grow"
    /\ loc.available_out = 0

\* The sum of the capacities of the first n blocks of a list.
RECURSIVE SumCapacities(_, _)
SumCapacities(list, n) ==
    IF n = 0 THEN 0 ELSE SumCapacities(list, n - 1) + BLen(list[n])

\* The buffer holds the blocks the schedule gives for the grows made:
\* grows + 1 blocks, block i (counted from 0) of capacity
\* BUFFER_BLOCK_SIZE[min(i, last)], and allocated is their sum.
BlocksFollowSchedule ==
    LET list == Deref(loc.buffer.list) IN
    /\ Len(list) = hist.c.grows + 1
    /\ \A i \in 0..(Len(list) - 1) :
          BLen(list[i + 1]) = BUFFER_BLOCK_SIZE[Min(i, Len(BUFFER_BLOCK_SIZE) - 1) + 1]
    /\ loc.buffer.allocated = SumCapacities(list, Len(list))

\* C17: after InitAndGrow and n successful grows the buffer holds n + 1
\* blocks, block i (0-based) has capacity
\* BUFFER_BLOCK_SIZE[min(i, len(BUFFER_BLOCK_SIZE) - 1)], allocated is the
\* sum of the capacities of all blocks, and allocated never decreases.
C17_BlockSchedule ==
    /\ [](loc.buffer.list # NULL => BlocksFollowSchedule)
    /\ [][loc.buffer.allocated' >= loc.buffer.allocated]_vars

\* The buffer has grown past the end of the table: the last two blocks have
\* the table's last size.
C17_Witness ==
    /\ pc = "buffer_open"
    /\ hist.c.grows = Len(BUFFER_BLOCK_SIZE) + 1
    /\ Len(Deref(loc.buffer.list)) = Len(BUFFER_BLOCK_SIZE) + 2
    /\ loc.available_out = 256 * MB

\* A driver is between two engine steps, or between the last step and the
\* teardown of the buffer.
BetweenSteps ==
    pc \in {"compress_stream_step", "compress_stream_grow", "compress_stream_end",
            "decompress_stream_step", "decompress_stream_grow",
            "decompress_stream_end",
            "brotli_decompress_create", "brotli_decompress_step",
            "brotli_decompress_grow", "brotli_decompress_end"}

\* The memory image has a byte nothing was written to.
HasJunk(mem) == \E i \in 1..Len(mem) : mem[i][1] = Junk

\* C18: between the engine steps of a driver run every block but the last
\* is completely written, the last block is written up to the offset
\* capacity - available_out (where next_out points) and not beyond, and the
\* number of bytes the engine has emitted so far in the call is
\* allocated - available_out.
C18_WrittenUpToWindow ==
    BetweenSteps =>
        /\ BLen(hist.c.written) = loc.buffer.allocated - loc.available_out
        /\ loc.buffer.list # NULL =>
              LET list == Deref(loc.buffer.list)
                  n    == Len(list)
                  used == BLen(list[n]) - loc.available_out
              IN /\ \A i \in 1..(n - 1) : ~HasJunk(list[i])
                 /\ used >= 0
                 /\ ~HasJunk(BTake(list[n], used))
                 /\ BDrop(list[n], used) = BRun(Junk, loc.available_out)
                 /\ loc.next_out = [blk |-> n, off |-> used]

\* A compress_stream that has grown its buffer is past its last step with
\* the last block partly written.
C18_Witness ==
    /\ pc = "compress_stream_end"
    /\ hist.c.grows > 0
    /\ loc.available_out > 0
    /\ loc.next_out.off > 0

\* A driver is between steps after a failed Grow: no list, nothing left of
\* the window.
C18_WitnessGrowFailed ==
    /\ BetweenSteps
    /\ hist.c.growFailed
    /\ loc.buffer.list = NULL
    /\ loc.available_out = 0

\* A step that is a successful grow appends one block after the blocks
\* there were, which stay as they are, and copies nothing.
GrowAppendsOnly ==
    hist.c.grows' = hist.c.grows + 1 =>
        LET old == Deref(loc.buffer.list)
            new == Deref(loc.buffer.list')
        IN /\ Len(new) = Len(old) + 1
           /\ SubSeq(new, 1, Len(old)) = old
           /\ new[Len(new)] = PyBytes_New(BLen(new[Len(new)]))
           /\ loc.buffer.copied' = loc.buffer.copied

\* A step that copies bytes out of the blocks is the call of Finish, the
\* first copy made, and copies as many bytes as were written.
CopiedOnlyByFinish ==
    loc.buffer.copied' # loc.buffer.copied =>
        /\ ~hist.c.finishCalled /\ hist.c.finishCalled'
        /\ loc.buffer.copied = 0
        /\ loc.buffer.copied' = BLen(hist.c.written)

\* C19: Grow leaves every block there is unchanged (same contents, same
\* capacity, same place in the list) and only appends one new block; the
\* written bytes are copied once in the buffer's lifetime, by Finish, and
\* by nothing else.
C19_GrowCopiesNothing ==
    /\ [][GrowAppendsOnly]_vars
    /\ [][CopiedOnlyByFinish]_vars
    /\ [](pc = "buffer_finished" =>
            /\ loc.buffer.copied = BLen(hist.c.written)
            /\ ret = Ref(hist.c.written))

\* A buffer that grew twice and holds more than its first two blocks was
\* finished: the bytes were copied then, once.
C19_Witness ==
    /\ pc = "buffer_finished"
    /\ hist.c.grows = 2
    /\ BLen(hist.c.written) > 96 * KB
    /\ loc.buffer.copied = BLen(hist.c.written)

\* The driver of the call has returned to its caller.
DriverEnded ==
    /\ call.fn \in DriverCalls
    /\ pc \in {"Compressor_process_end", "Compressor_flush_end",
               "Compressor_finish_end", "Decompressor_process_end", "idle"}

\* One teardown call for a driver call whose InitAndGrow succeeded, none
\* and no block for one whose InitAndGrow failed or that never came to it;
\* never Finish and CleanUp both.
OneTeardown ==
    /\ hist.c.teardowns <= 1
    /\ ~(hist.c.finishCalled /\ hist.c.cleanupCalled)
    /\ DriverEnded =>
          IF loc.buffer.allocated > 0
          THEN hist.c.teardowns = 1 /\ (hist.c.finishCalled \/ hist.c.cleanupCalled)
          ELSE hist.c.teardowns = 0 /\ loc.buffer.list = NULL

\* The teardown calls of a driver call, whichever they are, number one when
\* InitAndGrow succeeded and none when it failed.
C20_ExactlyOneTeardown == call.fn \in DriverCalls => OneTeardown

\* C20: a driver call whose InitAndGrow succeeded ends by calling exactly
\* one of Finish (when the operation succeeded) and CleanUp (on every abort
\* path: engine error, failed Grow), once and never both; a call whose
\* InitAndGrow failed calls neither and holds no block.
C20_FinishOrCleanUp ==
    call.fn \in DriverCalls =>
        /\ OneTeardown
        /\ hist.c.finishCalled => (~hist.c.growFailed /\ hist.c.errorAt = 0)

\* brotli_decompress has called Finish after a Grow that failed.
C20_Witness ==
    /\ call.fn = "decompress"
    /\ hist.c.growFailed
    /\ hist.c.finishCalled
    /\ hist.c.teardowns = 1

\* Both threads are inside an engine call on the shared object's engine.
BothInEngine == thr.inEngine = <<TRUE, TRUE>>

\* C14: the wrapper has no lock of its own.  A thread inside an engine call
\* has released the host's lock, so the host lock excludes nobody there;
\* and when one thread is inside an engine call on the object's engine, a
\* second thread that has come to the engine call of its own process, flush
\* or finish on the same object can enter it too.
C14_NoInternalLock ==
    /\ thr.inEngine[thr.cur] => ~hist.c.gil
    /\ thr.inEngine[3 - thr.cur] => ~thr.other.hc.gil
    /\ (thr.inEngine[3 - thr.cur] /\ AtEngineCall /\ ~thr.inEngine[thr.cur]) =>
          ENABLED EngineCall

\* Two threads are inside BrotliEncoderCompressStream on the encoder of the
\* same Compressor at the same time.
C14_Witness ==
    /\ BothInEngine
    /\ obj.type = "Compressor"
    /\ pc = "compress_stream_step"
    /\ thr.other.pc = "compress_stream_step"
    /\ {call.fn, thr.other.call.fn} = {"Compressor.process", "Compressor.finish"}

\* Two threads are inside BrotliDecoderDecompressStream on the decoder of
\* the same Decompressor at the same time.
C14_WitnessDecompressor ==
    /\ BothInEngine
    /\ obj.type = "Decompressor"
    /\ pc = "decompress_stream_step"
    /\ thr.other.pc = "decompress_stream_step"

\* Compressor.finish has returned.
FinishReturned == pc = "idle" /\ call.fn = "Compressor.finish"

\* The compress_stream call of the method succeeded: Finish was called and
\* gave the result.
LoopSucceeded == hist.c.finishCalled /\ loc.output # NULL

\* C21: Compressor.finish returns a result only if its compress_stream call
\* succeeded and the encoder then reports BrotliEncoderIsFinished; when the
\* call succeeded and the encoder is not finished, finish fails with
\* brotli.error and returns nothing.
C21_FinishNeedsFinished ==
    FinishReturned =>
        /\ ret # NULL =>
              /\ LoopSucceeded
              /\ obj.eng # NULL
              /\ BrotliEncoderIsFinished(Deref(obj.eng))
              /\ ret = loc.output
        /\ (LoopSucceeded /\ ~BrotliEncoderIsFinished(Deref(obj.eng))) =>
              ret = NULL /\ err = "BrotliError"

\* finish failed although its compress_stream call had built a result: the
\* encoder had left the stream open.
C21_Witness ==
    /\ FinishReturned
    /\ LoopSucceeded
    /\ ~BrotliEncoderIsFinished(Deref(obj.eng))
    /\ ret = NULL
    /\ err = "BrotliError"
    /\ BLen(Deref(loc.output)) > 0

\* finish returned the end of the stream: the encoder is finished.
C21_WitnessFinished ==
    /\ FinishReturned
    /\ ret # NULL
    /\ BrotliEncoderIsFinished(Deref(obj.eng))

\* A driver is about to call the engine.
AtStep ==
    pc \in {"compress_stream_step", "decompress_stream_step",
            "brotli_decompress_step"}

\* A driver has left its loop and not yet torn the buffer down.
AtLoopExit ==
    pc \in {"compress_stream_end", "decompress_stream_end",
            "brotli_decompress_end"}

C22_WitnessExit ==
    /\ pc = "brotli_decompress_end"
    /\ ~hist.c.growFailed
    /\ BLen(hist.c.written) = 32 * KB
    /\ loc.available_out = 64 * KB

\* The engine handle a driver at its step hands to the engine.
StepHandle == IF pc = "brotli_decompress_step" THEN loc.state ELSE obj.eng

\* C23: an engine step is never made on a NULL engine handle: in
\* Compressor.process/flush/finish, Decompressor.process and
\* brotli_decompress, when the creation of the engine failed the operation
\* fails with an error before any engine step: no driver comes to its
\* engine call with a NULL handle.
C23_NoStepOnNullEngine == AtStep => StepHandle # NULL

\* brotli_decompress has called BrotliDecoderDecompressStream on the NULL
\* state that BrotliDecoderCreateInstance returned: its first step.
C23_Witness ==
    /\ call.fn = "decompress"
    /\ pc = "crashed"
    /\ loc.state = NULL
    /\ hist.c.steps = 0
    /\ ~hist.c.finishCalled

\* A driver is inside its loop: InitAndGrow has succeeded and the loop has
\* not been left.
InDriverLoop == AtStep \/ AtGrow \/ pc = "brotli_decompress_create"

\* The driver of the call has reached Finish or CleanUp.
TornDown == hist.c.finishCalled \/ hist.c.cleanupCalled

\* The calls of Grow the driver has made, the failed one included.
GrowCalls == hist.c.grows + (IF hist.c.growFailed THEN 1 ELSE 0)

\* The sum of the capacities of the first n blocks of the schedule.
RECURSIVE ScheduleSum(_)
ScheduleSum(n) == IF n = 0 THEN 0 ELSE ScheduleSum(n - 1) + GrowBlockSize(n - 1)

\* The least n such that the first n + 1 blocks of the schedule hold more
\* than the given number of bytes.
LeastGrows(bytes) ==
    CHOOSE n \in 0..(Len(BUFFER_BLOCK_SIZE) + 1) :
        /\ ScheduleSum(n + 1) > bytes
        /\ \A m \in 0..(n - 1) : ScheduleSum(m + 1) <= bytes

\* When a driver leaves its loop it has called Grow the least number of
\* times that makes the blocks hold more than the bytes the engine emitted.
GrowsAreLeast == AtLoopExit => GrowCalls = LeastGrows(BLen(hist.c.written))

\* A driver in its loop comes to Finish or CleanUp, unless the process is
\* killed first.
C24_TerminatesUnlessKilled ==
    /\ []GrowsAreLeast
    /\ InDriverLoop ~> (TornDown \/ pc = "crashed")

\* C24: every driver call terminates: from inside its loop it reaches
\* Finish or CleanUp (the engine emits finitely many bytes and every step
\* makes progress or reports a final status); the number of grows is then
\* the least n such that the first n + 1 capacities of the schedule sum to
\* more than the bytes emitted.
C24_DriverTerminates ==
    /\ []GrowsAreLeast
    /\ InDriverLoop ~> TornDown

\* brotli_decompress was killed inside its loop, at the step on the NULL
\* state, with neither Finish nor CleanUp called.
C24_Witness ==
    /\ call.fn = "decompress"
    /\ pc = "crashed"
    /\ loc.state = NULL
    /\ ~TornDown
    /\ GrowCalls = 0

\* A call has returned an error to its caller.
ReturnedError == pc = "idle" /\ call.fn # "none" /\ ret = NULL /\ err # "none"

\* The call holds the bytes object that BlocksOutputBuffer_Finish built: no
\* statement of the drivers or of their callers drops a reference to it, so
\* it stays live unless it is handed to the caller.
LiveResult == loc.output # NULL

\* Of the calls, only Compressor.finish returns an error with a result
\* built and not released.
C25_OnlyFinishLeaks ==
    (ReturnedError /\ LiveResult) => call.fn = "Compressor.finish"

\* C25: a call that returns an error leaves no live result buffer behind:
\* when it fails after its driver built the result (Compressor.finish with a
\* successful loop and an encoder that is not finished), the result is
\* released before the error is set.
C25_NoLiveResultOnError == ReturnedError => ~LiveResult

\* Compressor.finish returned brotli.error with the bytes object of its
\* compress_stream call built, the buffer's list handed over to Finish, and
\* the object neither returned nor released.
C25_Witness ==
    /\ ReturnedError
    /\ call.fn = "Compressor.finish"
    /\ err = "BrotliError"
    /\ hist.c.finishCalled
    /\ loc.buffer.list = NULL
    /\ LiveResult

=============================================================================
